---------------------------- MODULE Spec2Model ----------------------------
(***************************************************************************)
(* A model of the sunset SSH engine: algorithm negotiation and the key     *)
(* exchange state machine (src/src/kex.rs) and the packet encryption layer *)
(* (src/sshproto/src/encrypt.rs).                                          *)
(***************************************************************************)
EXTENDS Integers, Sequences, FiniteSets, TLC

VARIABLES neg, ks, buf, rt, dv, kx, au, pd, wr, rn

negvars == <<neg>>
encvars == <<ks, buf, rt>>
dervars == <<dv>>
kexvars == <<kx>>
authvars == <<au>>
padvars == <<pd>>
wirevars == <<wr>>
runvars == <<rn>>
vars == <<neg, ks, buf, rt, dv, kx, au, pd, wr, rn>>

\* what the steps of one harness leave alone: the variables of the others
besides_neg == <<encvars, dervars, kexvars, authvars, padvars, wirevars, runvars>>
besides_enc == <<negvars, dervars, kexvars, authvars, padvars, wirevars, runvars>>
besides_der == <<negvars, encvars, kexvars, authvars, padvars, wirevars, runvars>>
besides_kex == <<negvars, encvars, dervars, authvars, padvars, wirevars, runvars>>
besides_auth == <<negvars, encvars, dervars, kexvars, padvars, wirevars, runvars>>
besides_pad == <<negvars, encvars, dervars, kexvars, authvars, wirevars, runvars>>
besides_wire == <<negvars, encvars, dervars, kexvars, authvars, padvars, runvars>>
besides_run == <<negvars, encvars, dervars, kexvars, authvars, padvars, wirevars>>

(***************************************************************************)
(* Algorithm names (sshnames), as used by src/src/kex.rs:34-50.            *)
(***************************************************************************)
SSH_NAME_CURVE25519 == "curve25519-sha256"
SSH_NAME_CURVE25519_LIBSSH == "curve25519-sha256@libssh.org"
SSH_NAME_EXT_INFO_C == "ext-info-c"
SSH_NAME_EXT_INFO_S == "ext-info-s"
SSH_NAME_KEXGUESS2 == "kexguess2@matt.ucc.asn.au"
SSH_NAME_ED25519 == "ssh-ed25519"
SSH_NAME_RSA_SHA256 == "rsa-sha2-256"
SSH_NAME_CHAPOLY == "chacha20-poly1305@openssh.com"
SSH_NAME_AES256_CTR == "aes256-ctr"
SSH_NAME_HMAC_SHA256 == "hmac-sha2-256"
SSH_NAME_NONE == "none"

\* Names a peer may offer that this implementation does not know.
NAME_DH14 == "diffie-hellman-group14-sha256"
NAME_3DES == "3des-cbc"
NAME_HMAC_SHA1 == "hmac-sha1"
NAME_ZLIB == "zlib"

fixed_options_kex == <<SSH_NAME_CURVE25519, SSH_NAME_CURVE25519_LIBSSH>>
marker_only_kexs == {SSH_NAME_EXT_INFO_C, SSH_NAME_EXT_INFO_S, SSH_NAME_KEXGUESS2}
fixed_options_hostsig == <<SSH_NAME_ED25519>>
fixed_options_cipher == <<SSH_NAME_CHAPOLY, SSH_NAME_AES256_CTR>>
fixed_options_mac == <<SSH_NAME_HMAC_SHA256>>
fixed_options_comp == <<SSH_NAME_NONE>>

\* AlgoConfig::new
AlgoConfig(is_client) ==
    [ kexs    |-> fixed_options_kex
                    \o (IF is_client THEN <<SSH_NAME_EXT_INFO_C>> ELSE <<>>)
                    \o <<SSH_NAME_KEXGUESS2>>,
      hostsig |-> fixed_options_hostsig,
      ciphers |-> fixed_options_cipher,
      macs    |-> fixed_options_mac,
      comps   |-> fixed_options_comp ]

(***************************************************************************)
(* Name lists.  namelist.rs is not among the sources; its three operations *)
(* used by the negotiation are modelled from the specification.            *)
(***************************************************************************)
NoName == [some |-> FALSE, v |-> ""]
SomeName(n) == [some |-> TRUE, v |-> n]

\* NameList::has_algo
has_algo(list, name) == \E i \in 1..Len(list) : list[i] = name

\* NameList::first: the first name, or the empty string for an empty list
first(list) == IF Len(list) = 0 THEN "" ELSE list[1]

\* NameList::first_match: the first entry of the client's list that is also
\* present in the server's list.  `remote` is the peer's list.
first_match(remote, is_client, our_options) ==
    LET cl == IF is_client THEN our_options ELSE remote
        sv == IF is_client THEN remote ELSE our_options
        hits == {i \in 1..Len(cl) : has_algo(sv, cl[i])}
    IN  IF hits = {} THEN NoName
        ELSE SomeName(cl[CHOOSE i \in hits : \A j \in hits : i <= j])

(***************************************************************************)
(* Cipher and integrity placeholders (encrypt.rs: Cipher, Integ).          *)
(***************************************************************************)
CIPHER_CHAPOLY == "ChaPoly"
CIPHER_AES256CTR == "Aes256Ctr"
INTEG_CHAPOLY == "IntegChaPoly"
INTEG_HMACSHA256 == "HmacSha256"

\* Cipher::from_name
Cipher_from_name(name) ==
    IF name = SSH_NAME_CHAPOLY THEN [ok |-> TRUE, v |-> CIPHER_CHAPOLY]
    ELSE IF name = SSH_NAME_AES256_CTR THEN [ok |-> TRUE, v |-> CIPHER_AES256CTR]
    ELSE [ok |-> FALSE, v |-> ""]

\* Cipher::integ: Some(Integ) for an AEAD cipher, None otherwise
Cipher_integ(c) ==
    IF c = CIPHER_CHAPOLY THEN SomeName(INTEG_CHAPOLY) ELSE NoName

\* Integ::from_name
Integ_from_name(name) ==
    IF name = SSH_NAME_HMAC_SHA256 THEN [ok |-> TRUE, v |-> INTEG_HMACSHA256]
    ELSE [ok |-> FALSE, v |-> ""]

\* SigType::from_name (the rsa feature is off: only ed25519 is configured)
SigType_from_name(name) ==
    IF name \in {SSH_NAME_ED25519, SSH_NAME_RSA_SHA256}
    THEN [ok |-> TRUE, v |-> name] ELSE [ok |-> FALSE, v |-> ""]

\* KexCurve25519::new and the public half of it: `ours` is the secret key
\* (0 once consumed by KexCurve25519::secret), pubkey the matching point.
KexCurve25519_new(rnd) == [ours |-> rnd, pubkey |-> rnd]

\* SharedSecret::from_name
SharedSecret_from_name(name, rnd) ==
    IF name \in {SSH_NAME_CURVE25519, SSH_NAME_CURVE25519_LIBSSH}
    THEN [ok |-> TRUE, v |-> KexCurve25519_new(rnd)]
    ELSE [ok |-> FALSE, v |-> [ours |-> 0, pubkey |-> 0]]

(***************************************************************************)
(* Results.  Error values are named after error.rs variants.               *)
(***************************************************************************)
E_NONE == "Ok"
E_BUG == "Bug"
E_PACKETWRONG == "PacketWrong"
E_NOMATCH_KEX == "AlgoNoMatch(kex)"
E_NOMATCH_HOSTKEY == "AlgoNoMatch(hostkey)"
E_NOMATCH_ENC == "AlgoNoMatch(encryption)"
E_NOMATCH_MAC == "AlgoNoMatch(mac)"
E_NOMATCH_COMP == "AlgoNoMatch(compression)"

NoAlgos ==
    [ kex |-> [ours |-> 0, pubkey |-> 0], hostsig |-> "", cipher_enc |-> "",
      cipher_dec |-> "", integ_enc |-> "", integ_dec |-> "",
      discard_next |-> FALSE, is_client |-> FALSE, send_ext_info |-> FALSE ]

NegErr(e) == [err |-> e, algos |-> NoAlgos]

(***************************************************************************)
(* Kex::algo_negotiation (kex.rs:380-483).  `p` is the peer's KexInit,     *)
(* `conf` our AlgoConfig, `rnd` the random seed KexCurve25519::new draws.  *)
(***************************************************************************)

\* kex.rs:387-396: the negotiated kex method; a marker that wins the match
\* means no valid method matched.
NegKexMethodNoMarkerCheck(is_client, p, conf) ==
    LET m == first_match(p.kex, is_client, conf.kexs)
    IN  IF ~m.some THEN [err |-> E_NOMATCH_KEX, v |-> ""]
        ELSE [err |-> E_NONE, v |-> m.v]

NegKexMethod(is_client, p, conf) ==
    LET m == first_match(p.kex, is_client, conf.kexs)
    IN  IF ~m.some THEN [err |-> E_NOMATCH_KEX, v |-> ""]
        ELSE IF m.v \in marker_only_kexs THEN [err |-> E_NOMATCH_KEX, v |-> ""]
        ELSE [err |-> E_NONE, v |-> m.v]

\* kex.rs:399-403 and 419-423: was the peer's guess right
goodguess(kexguess2, remote, method, ours) ==
    IF kexguess2 THEN first(remote) = method
    ELSE first(remote) = first(ours)

\* kex.rs:425-429: which of the peer's lists describe our tx and our rx
NegDirectionsSwapped(is_client, p) ==
    LET c2s == [cipher |-> p.cipher_c2s, mac |-> p.mac_c2s, comp |-> p.comp_c2s]
        s2c == [cipher |-> p.cipher_s2c, mac |-> p.mac_s2c, comp |-> p.comp_s2c]
    IN  [tx |-> c2s, rx |-> s2c]

NegDirections(is_client, p) ==
    LET c2s == [cipher |-> p.cipher_c2s, mac |-> p.mac_c2s, comp |-> p.comp_c2s]
        s2c == [cipher |-> p.cipher_s2c, mac |-> p.mac_s2c, comp |-> p.comp_s2c]
    IN  IF is_client THEN [tx |-> c2s, rx |-> s2c] ELSE [tx |-> s2c, rx |-> c2s]

\* kex.rs:440-456: the integrity algorithm of one direction; the mac lists
\* are ignored for an AEAD cipher.
NegIntegAlwaysMac(is_client, cipher, macs, conf) ==
    LET n == first_match(macs, is_client, conf.macs)
    IN  IF ~n.some THEN [err |-> E_NOMATCH_MAC, v |-> ""]
        ELSE IF Cipher_integ(cipher).some
             THEN [err |-> E_NONE, v |-> Cipher_integ(cipher).v]
        ELSE IF ~Integ_from_name(n.v).ok THEN [err |-> E_BUG, v |-> ""]
        ELSE [err |-> E_NONE, v |-> Integ_from_name(n.v).v]

NegInteg(is_client, cipher, macs, conf) ==
    IF Cipher_integ(cipher).some
    THEN [err |-> E_NONE, v |-> Cipher_integ(cipher).v]
    ELSE LET n == first_match(macs, is_client, conf.macs)
         IN  IF ~n.some THEN [err |-> E_NOMATCH_MAC, v |-> ""]
             ELSE IF ~Integ_from_name(n.v).ok THEN [err |-> E_BUG, v |-> ""]
             ELSE [err |-> E_NONE, v |-> Integ_from_name(n.v).v]

\* kex.rs:470
DiscardNextKexOnly(first_follows, goodguess_kex, goodguess_hostkey) ==
    first_follows /\ ~goodguess_kex

DiscardNext(first_follows, goodguess_kex, goodguess_hostkey) ==
    first_follows /\ ~(goodguess_kex /\ goodguess_hostkey)

AlgoNegotiation(is_client, p, conf, rnd) ==
    LET kexguess2 == has_algo(p.kex, SSH_NAME_KEXGUESS2)
        km == NegKexMethod(is_client, p, conf)
        kex == SharedSecret_from_name(km.v, rnd)
        goodguess_kex == goodguess(kexguess2, p.kex, km.v, conf.kexs)
        send_ext_info ==
            IF is_client THEN FALSE ELSE has_algo(p.kex, SSH_NAME_EXT_INFO_C)
        hm == first_match(p.hostsig, is_client, conf.hostsig)
        hostsig == SigType_from_name(hm.v)
        goodguess_hostkey == goodguess(kexguess2, p.hostsig, hm.v, conf.hostsig)
        d == NegDirections(is_client, p)
        ntx == first_match(d.tx.cipher, is_client, conf.ciphers)
        cipher_enc == Cipher_from_name(ntx.v)
        nrx == first_match(d.rx.cipher, is_client, conf.ciphers)
        cipher_dec == Cipher_from_name(nrx.v)
        integ_enc == NegInteg(is_client, cipher_enc.v, d.tx.mac, conf)
        integ_dec == NegInteg(is_client, cipher_dec.v, d.rx.mac, conf)
        ctx == first_match(d.tx.comp, is_client, conf.comps)
        crx == first_match(d.rx.comp, is_client, conf.comps)
    IN  IF km.err # E_NONE THEN NegErr(km.err)
        ELSE IF ~kex.ok THEN NegErr(E_BUG)
        ELSE IF ~hm.some THEN NegErr(E_NOMATCH_HOSTKEY)
        ELSE IF ~hostsig.ok THEN NegErr(E_BUG)
        ELSE IF ~ntx.some THEN NegErr(E_NOMATCH_ENC)
        ELSE IF ~cipher_enc.ok THEN NegErr(E_BUG)
        ELSE IF ~nrx.some THEN NegErr(E_NOMATCH_ENC)
        ELSE IF ~cipher_dec.ok THEN NegErr(E_BUG)
        ELSE IF integ_enc.err # E_NONE THEN NegErr(integ_enc.err)
        ELSE IF integ_dec.err # E_NONE THEN NegErr(integ_dec.err)
        ELSE IF ~ctx.some \/ ~crx.some THEN NegErr(E_NOMATCH_COMP)
        ELSE [ err |-> E_NONE,
               algos |->
                 [ kex |-> kex.v, hostsig |-> hostsig.v,
                   cipher_enc |-> cipher_enc.v, cipher_dec |-> cipher_dec.v,
                   integ_enc |-> integ_enc.v, integ_dec |-> integ_dec.v,
                   discard_next |->
                       DiscardNext(p.first_follows, goodguess_kex, goodguess_hostkey),
                   is_client |-> is_client,
                   send_ext_info |-> send_ext_info ] ]

(***************************************************************************)
(* Bounds and input sets.                                                  *)
(***************************************************************************)
\* longest kex name-list a peer offers in the negotiation harness
MaxKexNames == 2
\* number of distinct values a random draw (cookie, curve25519 seed) takes
MaxRandom == 2

Randoms == 1..MaxRandom

RECURSIVE SeqsUpTo(_, _)
\* duplicate-free sequences over S of length at most n
SeqsUpTo(S, n) ==
    IF n = 0 THEN {<<>>}
    ELSE LET shorter == SeqsUpTo(S, n - 1)
         IN  shorter \cup
             {Append(q, x) : <<q, x>> \in
                 {<<q, x>> \in shorter \X S : Len(q) = n - 1 /\ ~has_algo(q, x)}}

PeerKexNames ==
    {SSH_NAME_CURVE25519, SSH_NAME_CURVE25519_LIBSSH, SSH_NAME_EXT_INFO_C,
     SSH_NAME_KEXGUESS2, NAME_DH14}
PeerKexLists == SeqsUpTo(PeerKexNames, MaxKexNames)
PeerHostsigLists ==
    {<<SSH_NAME_ED25519>>, <<SSH_NAME_RSA_SHA256>>,
     <<SSH_NAME_RSA_SHA256, SSH_NAME_ED25519>>, <<>>}
PeerCipherLists ==
    {<<SSH_NAME_CHAPOLY>>, <<SSH_NAME_AES256_CTR>>,
     <<SSH_NAME_AES256_CTR, SSH_NAME_CHAPOLY>>, <<NAME_3DES>>}
PeerMacLists == {<<SSH_NAME_HMAC_SHA256>>, <<NAME_HMAC_SHA1>>}
PeerCompLists == {<<SSH_NAME_NONE>>, <<NAME_ZLIB>>}

\* packets::KexInit (packets.rs:31-50); the language lists and the reserved
\* word play no part and are left out.
KexInitPkt(cookie, kex, hostsig, cc, cs, mc, ms, zc, zs, ff) ==
    [ ty |-> "KexInit", cookie |-> cookie, kex |-> kex, hostsig |-> hostsig,
      cipher_c2s |-> cc, cipher_s2c |-> cs, mac_c2s |-> mc, mac_s2c |-> ms,
      comp_c2s |-> zc, comp_s2c |-> zs, first_follows |-> ff ]

PeerKexInits ==
    { KexInitPkt(1, k, h, cc, cs, mc, ms, zc, zs, ff) :
        k \in PeerKexLists, h \in PeerHostsigLists,
        cc \in PeerCipherLists, cs \in PeerCipherLists,
        mc \in PeerMacLists, ms \in PeerMacLists,
        zc \in PeerCompLists, zs \in PeerCompLists, ff \in BOOLEAN }

(***************************************************************************)
(* 32-bit unsigned values.  They are kept as two 16-bit halves, so that    *)
(* values up to 2^32-1 and the wrap to 0 can be written down.              *)
(***************************************************************************)
U32(hi, lo) == [hi |-> hi, lo |-> lo]
U32Zero == U32(0, 0)
U32Max == U32(65535, 65535)
\* a small natural as a u32
U32Of(n) == U32(n \div 65536, n % 65536)

\* Wrapping<u32> += 1
U32WrappingInc(x) ==
    IF x.lo = 65535 THEN U32((x.hi + 1) % 65536, 0) ELSE U32(x.hi, x.lo + 1)

\* u32::checked_add of a small n: none on overflow
U32CheckedAdd(x, n) ==
    LET lo == x.lo + n
        hi == x.hi + lo \div 65536
    IN  IF hi > 65535 THEN [some |-> FALSE, v |-> U32Zero]
        ELSE [some |-> TRUE, v |-> U32(hi, lo % 65536)]

\* u32::from_be_bytes
U32FromBeBytes(b) == U32(b[1] * 256 + b[2], b[3] * 256 + b[4])

\* u32::to_be_bytes of a small natural
BeBytes(n) ==
    << (n \div 16777216) % 256, (n \div 65536) % 256, (n \div 256) % 256, n % 256 >>

(***************************************************************************)
(* encrypt.rs constants                                                    *)
(***************************************************************************)
SSH_MIN_PACKET_SIZE == 16
SSH_MIN_PADLEN == 4
SSH_MIN_BLOCK == 8
SSH_LENGTH_SIZE == 4
SSH_PAYLOAD_START == SSH_LENGTH_SIZE + 1
MAX_IV_LEN == 32
MAX_KEY_LEN == 64
CHAPOLY_KEY_LEN == 64
CHAPOLY_TAG_LEN == 16
AES256_KEY_SIZE == 32
AES256_BLOCK_SIZE == 16
SHA256_OUTPUT_SIZE == 32
HMAC_SHA256_KEY_LEN == 32

E_NOROOM == "NoRoom"
E_BADDECRYPT == "BadDecrypt"
E_SSHPROTO == "SSHProtoError"

(***************************************************************************)
(* Buffers.  A buffer is a sequence of cells, one per byte.  A cell holds  *)
(* the byte value v, the set e of keystream bytes XORed onto it (XORing a  *)
(* keystream byte a second time removes it), and, for a byte of a MAC or   *)
(* tag, the digest t it is a byte of.  Hash functions and ciphers are      *)
(* taken as injective: a digest is named by what was hashed.               *)
(***************************************************************************)
\* an empty slice of key material
EmptyKey == [letter |-> "", len |-> 0, k |-> <<>>, h |-> <<>>, sid |-> <<>>]

Cell(v) == [v |-> v, e |-> {}, t |-> <<>>]

\* the value read from a byte: `g` is what a byte still under a keystream,
\* or a byte of a digest, reads as
Byte(c, g) == IF c.e = {} /\ c.t = <<>> THEN c.v ELSE g

\* one keystream byte: cipher instance `key`, stream, packet number, offset
KeystreamByte(key, stream, n, pos) ==
    [key |-> key, stream |-> stream, n |-> n, pos |-> pos]

XorCell(c, ksb) ==
    [c EXCEPT !.e = IF ksb \in @ THEN @ \ {ksb} ELSE @ \cup {ksb}]

\* StreamCipher::apply_keystream on cells from..to of b (1-based, inclusive),
\* the keystream starting at position pos
ApplyKeystream(b, from, to, key, stream, n, pos) ==
    [i \in 1..Len(b) |->
        IF i >= from /\ i <= to
        THEN XorCell(b[i], KeystreamByte(key, stream, n, pos + (i - from)))
        ELSE b[i]]

\* a byte altered in transit: XORed with a non-zero value no keystream removes
FLIP == KeystreamByte([key |-> EmptyKey, iv |-> EmptyKey], "flip", [hi |-> 0, lo |-> 0], 0)
FlipCell(c) == XorCell(c, FLIP)

\* a digest that does not depend on the data
DigestCellsOfKeyOnly(alg, key, seq, data, size) ==
    [j \in 1..size |->
        [v |-> 0, e |-> {},
         t |-> <<[alg |-> alg, key |-> key, seq |-> seq, data |-> <<>>, j |-> j]>>]]

\* the `size` bytes of the digest of `data` under `key` and packet number
\* seq: the first byte names the digest, the others only their place in it
DigestCells(alg, key, seq, data, size) ==
    [j \in 1..size |->
        [v |-> 0, e |-> {},
         t |-> IF j = 1
               THEN <<[alg |-> alg, key |-> key, seq |-> seq, data |-> data, j |-> j]>>
               ELSE <<[alg |-> alg, key |-> EmptyKey, seq |-> U32Zero, data |-> <<>>,
                       j |-> j]>>]]

WriteAt(b, start, cells) ==
    [i \in 1..Len(b) |->
        IF i >= start /\ i < start + Len(cells) THEN cells[i - start + 1] ELSE b[i]]

(***************************************************************************)
(* Key material and keys                                                   *)
(***************************************************************************)
\* Keys::compute_key: the first len bytes of K1 || K2, where
\* K1 = HASH(K || H || letter || session_id) and K2 = HASH(K || H || K1)
compute_key(letter, len, out_len, k, h, sess_id) ==
    IF len > out_len THEN [err |-> E_BUG, v |-> EmptyKey]
    ELSE IF len = 0 THEN [err |-> E_NONE, v |-> EmptyKey]
    ELSE [err |-> E_NONE,
          v |-> [letter |-> letter, len |-> len, k |-> k, h |-> h, sid |-> sess_id]]

\* Cipher::key_len, Cipher::iv_len, Integ::key_len
Cipher_key_len(c) == IF c = CIPHER_CHAPOLY THEN CHAPOLY_KEY_LEN ELSE AES256_KEY_SIZE
Cipher_iv_len(c) == IF c = CIPHER_CHAPOLY THEN 0 ELSE AES256_BLOCK_SIZE
Integ_key_len(i) == IF i = INTEG_CHAPOLY THEN 0 ELSE HMAC_SHA256_KEY_LEN

NoCipherKey == [kind |-> "NoCipher", key |-> EmptyKey, iv |-> EmptyKey, pos |-> 0]
NoIntegKey == [kind |-> "NoInteg", key |-> EmptyKey]

\* EncKey::from_cipher and DecKey::from_cipher: a key of the wrong length is
\* trapped as a bug; the ChaPoly key takes no iv
CipherKey_from_cipher(cipher, key, iv) ==
    IF cipher = CIPHER_CHAPOLY
    THEN IF key.len # CHAPOLY_KEY_LEN THEN [err |-> E_BUG, v |-> NoCipherKey]
         ELSE [err |-> E_NONE,
               v |-> [kind |-> CIPHER_CHAPOLY, key |-> key, iv |-> EmptyKey, pos |-> 0]]
    ELSE IF key.len # AES256_KEY_SIZE \/ iv.len # AES256_BLOCK_SIZE
         THEN [err |-> E_BUG, v |-> NoCipherKey]
         ELSE [err |-> E_NONE,
               v |-> [kind |-> CIPHER_AES256CTR, key |-> key, iv |-> iv, pos |-> 0]]

\* IntegKey::from_integ
IntegKey_from_integ(integ, key) ==
    IF integ = INTEG_CHAPOLY
    THEN [err |-> E_NONE, v |-> [kind |-> INTEG_CHAPOLY, key |-> EmptyKey]]
    ELSE IF key.len # HMAC_SHA256_KEY_LEN THEN [err |-> E_BUG, v |-> NoIntegKey]
    ELSE [err |-> E_NONE, v |-> [kind |-> INTEG_HMACSHA256, key |-> key]]

\* Keys::new_cleartext
Keys_new_cleartext ==
    [enc |-> NoCipherKey, dec |-> NoCipherKey,
     integ_enc |-> NoIntegKey, integ_dec |-> NoIntegKey]

\* the letters of Keys::new_from, by role: (iv_e, iv_d, k_e, k_d, i_e, i_d)
LettersSameForBoth(is_client) ==
    [iv_e |-> "A", iv_d |-> "B", k_e |-> "C", k_d |-> "D", i_e |-> "E", i_d |-> "F"]

Letters(is_client) ==
    IF is_client
    THEN [iv_e |-> "A", iv_d |-> "B", k_e |-> "C", k_d |-> "D", i_e |-> "E", i_d |-> "F"]
    ELSE [iv_e |-> "B", iv_d |-> "A", k_e |-> "D", k_d |-> "C", i_e |-> "F", i_d |-> "E"]

\* Keys::new_from.  The key of integ_dec is computed with the key length of
\* integ_enc (encrypt.rs:189).
Keys_new_from(k, h, sess_id, algos) ==
    LET l == Letters(algos.is_client)
        e_iv == compute_key(l.iv_e, Cipher_iv_len(algos.cipher_enc), MAX_IV_LEN, k, h, sess_id)
        e_k == compute_key(l.k_e, Cipher_key_len(algos.cipher_enc), MAX_KEY_LEN, k, h, sess_id)
        enc == CipherKey_from_cipher(algos.cipher_enc, e_k.v, e_iv.v)
        d_iv == compute_key(l.iv_d, Cipher_iv_len(algos.cipher_dec), MAX_IV_LEN, k, h, sess_id)
        d_k == compute_key(l.k_d, Cipher_key_len(algos.cipher_dec), MAX_KEY_LEN, k, h, sess_id)
        dec == CipherKey_from_cipher(algos.cipher_dec, d_k.v, d_iv.v)
        ie_k == compute_key(l.i_e, Integ_key_len(algos.integ_enc), MAX_KEY_LEN, k, h, sess_id)
        integ_enc == IntegKey_from_integ(algos.integ_enc, ie_k.v)
        id_k == compute_key(l.i_d, Integ_key_len(algos.integ_enc), MAX_KEY_LEN, k, h, sess_id)
        integ_dec == IntegKey_from_integ(algos.integ_dec, id_k.v)
        errs == <<e_iv.err, e_k.err, enc.err, d_iv.err, d_k.err, dec.err,
                  ie_k.err, integ_enc.err, id_k.err, integ_dec.err>>
        bad == {i \in 1..Len(errs) : errs[i] # E_NONE}
    IN  IF bad # {}
        THEN [err |-> errs[CHOOSE i \in bad : \A j \in bad : i <= j],
              keys |-> Keys_new_cleartext]
        ELSE [err |-> E_NONE,
              keys |-> [enc |-> enc.v, dec |-> dec.v,
                        integ_enc |-> integ_enc.v, integ_dec |-> integ_dec.v]]

\* size_block and is_aead of EncKey and DecKey, IntegKey::size_out
\* (size_block_min: every cipher taken to have the minimum block size;
\* is_aead_never: no cipher taken as AEAD)
size_block_min(key) == SSH_MIN_BLOCK
size_block(key) == IF key.kind = CIPHER_AES256CTR THEN AES256_BLOCK_SIZE ELSE SSH_MIN_BLOCK
is_aead_never(key) == FALSE
is_aead(key) == key.kind = CIPHER_CHAPOLY
size_out(ik) ==
    IF ik.kind = INTEG_CHAPOLY THEN CHAPOLY_TAG_LEN
    ELSE IF ik.kind = INTEG_HMACSHA256 THEN SHA256_OUTPUT_SIZE ELSE 0

(***************************************************************************)
(* Keys: padding, encrypt, decrypt_first_block, decrypt                    *)
(***************************************************************************)
\* the cipher instance a keystream byte belongs to
CipherId(key) == [key |-> key.key, iv |-> key.iv]

\* Keys::calc_encrypt_pad without the minimum padding of 4
calc_encrypt_pad_no_min(keys, payload_len) ==
    LET sb == size_block(keys.enc)
        len == 1 + payload_len + (IF is_aead(keys.enc) THEN 0 ELSE SSH_LENGTH_SIZE)
        p1 == sb - (len % sb)
    IN  IF SSH_LENGTH_SIZE + 1 + payload_len + p1 < SSH_MIN_PACKET_SIZE
        THEN p1 + sb ELSE p1

\* Keys::calc_encrypt_pad
calc_encrypt_pad(keys, payload_len) ==
    LET sb == size_block(keys.enc)
        len == 1 + payload_len + (IF is_aead(keys.enc) THEN 0 ELSE SSH_LENGTH_SIZE)
        p1 == sb - (len % sb)
        p2 == IF p1 < SSH_MIN_PADLEN THEN p1 + sb ELSE p1
    IN  IF SSH_LENGTH_SIZE + 1 + payload_len + p2 < SSH_MIN_PACKET_SIZE
        THEN p2 + sb ELSE p2

E_PANIC == "Panic"

\* Keys::encrypt.  b is the whole output buffer with the payload in place,
\* rnd the byte random::fill_random writes as padding.
Keys_encrypt(keys, payload_len, b, seq, rnd) ==
    LET sb == size_block(keys.enc)
        si == size_out(keys.integ_enc)
        padlen == calc_encrypt_pad(keys, payload_len)
        len == SSH_LENGTH_SIZE + 1 + payload_len + padlen
        fail(e) == [err |-> e, n |-> 0, buf |-> b, keys |-> keys]
        b1 == [b EXCEPT ![SSH_LENGTH_SIZE + 1] = Cell(padlen % 256)]
        lenbytes == BeBytes(len - SSH_LENGTH_SIZE)
        b2 == WriteAt(b1, 1, [i \in 1..SSH_LENGTH_SIZE |-> Cell(lenbytes[i])])
        pad_start == SSH_LENGTH_SIZE + 1 + payload_len
        b3 == WriteAt(b2, pad_start + 1, [i \in 1..padlen |-> Cell(rnd)])
        b4 == IF keys.integ_enc.kind = INTEG_HMACSHA256
              THEN WriteAt(b3, len + 1,
                       DigestCells("hmac-sha256", keys.integ_enc.key, seq,
                                   SubSeq(b3, 1, len), SHA256_OUTPUT_SIZE))
              ELSE b3
        id == CipherId(keys.enc)
        sealed_len == ApplyKeystream(b4, 1, SSH_LENGTH_SIZE, id, "len", seq, 0)
        sealed == ApplyKeystream(sealed_len, SSH_LENGTH_SIZE + 1, len, id, "main", seq, 0)
        tagged == WriteAt(sealed, len + 1,
                     DigestCells("poly1305", id, seq, SubSeq(sealed, 1, len),
                                 CHAPOLY_TAG_LEN))
    IN  IF (IF is_aead(keys.enc) THEN (len - SSH_LENGTH_SIZE) % sb ELSE len % sb) # 0
        THEN fail(E_PANIC)
        ELSE IF len + si > Len(b) THEN fail(E_NOROOM)
        ELSE IF keys.enc.kind = CIPHER_CHAPOLY
        THEN IF si # CHAPOLY_TAG_LEN THEN [fail(E_BUG) EXCEPT !.buf = b4]
             ELSE [err |-> E_NONE, n |-> len + si, buf |-> tagged, keys |-> keys]
        ELSE IF keys.enc.kind = CIPHER_AES256CTR
        THEN [err |-> E_NONE, n |-> len + si,
              buf |-> ApplyKeystream(b4, 1, len, id, "ctr", U32Zero, keys.enc.pos),
              keys |-> [keys EXCEPT !.enc.pos = @ + len]]
        ELSE [err |-> E_NONE, n |-> len + si, buf |-> b4, keys |-> keys]

\* Keys::decrypt_first_block
Keys_decrypt_first_block(keys, b, seq, g) ==
    LET id == CipherId(keys.dec)
        fail(e) == [err |-> e, total |-> U32Zero, buf |-> b, keys |-> keys]
        b1 == IF keys.dec.kind = CIPHER_AES256CTR
              THEN ApplyKeystream(b, 1, AES256_BLOCK_SIZE, id, "ctr", U32Zero, keys.dec.pos)
              ELSE b
        keys1 == IF keys.dec.kind = CIPHER_AES256CTR
                 THEN [keys EXCEPT !.dec.pos = @ + AES256_BLOCK_SIZE] ELSE keys
        d4 == IF keys.dec.kind = CIPHER_CHAPOLY
              THEN ApplyKeystream(SubSeq(b, 1, SSH_LENGTH_SIZE), 1, SSH_LENGTH_SIZE,
                                  id, "len", seq, 0)
              ELSE SubSeq(b1, 1, SSH_LENGTH_SIZE)
        len == U32FromBeBytes([i \in 1..SSH_LENGTH_SIZE |-> Byte(d4[i], g)])
        total == U32CheckedAdd(len, SSH_LENGTH_SIZE + size_out(keys.integ_dec))
    IN  IF Len(b) < size_block(keys.dec) THEN fail(E_BUG)
        ELSE IF ~total.some
        THEN [err |-> E_BADDECRYPT, total |-> U32Zero, buf |-> b1, keys |-> keys1]
        ELSE [err |-> E_NONE, total |-> total.v, buf |-> b1, keys |-> keys1]

\* Keys::decrypt with the padding length left out of the payload length
Keys_decrypt_keep_pad(keys, b, seq, g) ==
    [err |-> E_NONE, n |-> Len(b) - (SSH_LENGTH_SIZE + 1 + size_out(keys.integ_dec)),
     buf |-> b, keys |-> keys]

\* Keys::decrypt
Keys_decrypt(keys, b, seq, g) ==
    LET sb == size_block(keys.dec)
        si == size_out(keys.integ_dec)
        id == CipherId(keys.dec)
        fail(e) == [err |-> e, n |-> 0, buf |-> b, keys |-> keys]
        sublength == IF is_aead(keys.dec) THEN SSH_LENGTH_SIZE ELSE 0
        data == SubSeq(b, 1, Len(b) - si)
        mac == SubSeq(b, Len(b) - si + 1, Len(b))
        tag_ok == mac = DigestCells("poly1305", id, seq, data, CHAPOLY_TAG_LEN)
        data1 == IF keys.dec.kind = CIPHER_CHAPOLY
                 THEN ApplyKeystream(data, SSH_LENGTH_SIZE + 1, Len(data), id, "main", seq, 0)
                 ELSE IF keys.dec.kind = CIPHER_AES256CTR /\ Len(data) > AES256_BLOCK_SIZE
                 THEN ApplyKeystream(data, AES256_BLOCK_SIZE + 1, Len(data), id, "ctr",
                                     U32Zero, keys.dec.pos)
                 ELSE data
        keys1 == IF keys.dec.kind = CIPHER_AES256CTR /\ Len(data) > AES256_BLOCK_SIZE
                 THEN [keys EXCEPT !.dec.pos = @ + (Len(data) - AES256_BLOCK_SIZE)]
                 ELSE keys
        b1 == data1 \o mac
        mac_ok == mac = DigestCells("hmac-sha256", keys.integ_dec.key, seq, data1,
                                    SHA256_OUTPUT_SIZE)
        padlen == Byte(data1[SSH_LENGTH_SIZE + 1], g)
        after(e) == [err |-> e, n |-> 0, buf |-> b1, keys |-> keys1]
    IN  IF Len(b) < sb + si THEN fail(E_SSHPROTO)
        ELSE IF Len(b) < SSH_MIN_PACKET_SIZE + si THEN fail(E_SSHPROTO)
        ELSE IF (Len(b) - si - sublength) % sb # 0 THEN fail(E_SSHPROTO)
        ELSE IF keys.dec.kind = CIPHER_CHAPOLY /\ si # CHAPOLY_TAG_LEN THEN fail(E_BUG)
        ELSE IF keys.dec.kind = CIPHER_CHAPOLY /\ ~tag_ok THEN fail(E_BADDECRYPT)
        ELSE IF keys.integ_dec.kind = INTEG_HMACSHA256 /\ ~mac_ok THEN after(E_BADDECRYPT)
        ELSE IF padlen < SSH_MIN_PADLEN THEN after(E_SSHPROTO)
        ELSE IF Len(b) < SSH_LENGTH_SIZE + 1 + si + padlen THEN after(E_SSHPROTO)
        ELSE [err |-> E_NONE, n |-> Len(b) - (SSH_LENGTH_SIZE + 1 + si + padlen),
              buf |-> b1, keys |-> keys1]

(***************************************************************************)
(* KeyState (encrypt.rs:44-96)                                             *)
(***************************************************************************)
KeyState_new_cleartext ==
    [keys |-> Keys_new_cleartext, seq_encrypt |-> U32Zero, seq_decrypt |-> U32Zero]

\* a rekey that starts the sequence numbers afresh
KeyState_rekey_fresh(s, keys) == [KeyState_new_cleartext EXCEPT !.keys = keys]

\* KeyState::rekey
KeyState_rekey(s, keys) == [s EXCEPT !.keys = keys]

\* KeyState::decrypt_first_block: the sequence number is read, not advanced
KeyState_first_block_done(s, r) ==
    [ks |-> [s EXCEPT !.keys = r.keys], err |-> r.err, total |-> r.total, buf |-> r.buf]

KeyState_decrypt_first_block(s, b, g) ==
    KeyState_first_block_done(s, Keys_decrypt_first_block(s.keys, b, s.seq_decrypt, g))

\* KeyState::decrypt: the sequence number advances whatever Keys::decrypt
\* returned
KeyState_decrypt_done(s, r) ==
    [ks |-> [s EXCEPT !.keys = r.keys, !.seq_decrypt = U32WrappingInc(s.seq_decrypt)],
     err |-> r.err, n |-> r.n, buf |-> r.buf]

KeyState_decrypt(s, b, g) ==
    KeyState_decrypt_done(s, Keys_decrypt(s.keys, b, s.seq_decrypt, g))

\* KeyState::encrypt: the sequence number advances whatever Keys::encrypt
\* returned
KeyState_encrypt_done(s, r) ==
    [ks |-> [s EXCEPT !.keys = r.keys, !.seq_encrypt = U32WrappingInc(s.seq_encrypt)],
     err |-> r.err, n |-> r.n, buf |-> r.buf]

KeyState_encrypt(s, payload_len, b, rnd) ==
    KeyState_encrypt_done(s, Keys_encrypt(s.keys, payload_len, b, s.seq_encrypt, rnd))

(***************************************************************************)
(* The key exchange state machine (kex.rs).  An engine is one side of a    *)
(* connection: its role, its Kex state, the session id, the keys in use,   *)
(* and the packets it has handed to TrafSend.  A hash is named by the      *)
(* sequence of items hashed; a Curve25519 secret key is a number and its   *)
(* public point the same number; 0 is a string that is not 32 bytes long.  *)
(***************************************************************************)
E_BADKEX == "BadKex"
E_BADSIG == "BadSignature"
E_BEHAVIOUR == "BehaviourError"

\* Option<SessId>: None, Some(h)
NoSessId == <<>>
SomeSessId(h) == <<h>>

NoOutput == [h |-> <<>>, k |-> <<>>]

\* enum Kex
Kex_Idle ==
    [tag |-> "Idle", our_cookie |-> 0, algos |-> NoAlgos, kex_hash |-> <<>>,
     output |-> NoOutput]
Kex_KexInit(our_cookie) == [Kex_Idle EXCEPT !.tag = "KexInit", !.our_cookie = our_cookie]
Kex_KexDH(algos, kex_hash) ==
    [Kex_Idle EXCEPT !.tag = "KexDH", !.algos = algos, !.kex_hash = kex_hash]
\* a mutant of `*self = Kex::NewKeys { output, algos }`: the state is left
\* as take() left it
Kex_NewKeys_not_set(output, algos) == [Kex_Idle EXCEPT !.tag = "Taken"]
Kex_NewKeys(output, algos) ==
    [Kex_Idle EXCEPT !.tag = "NewKeys", !.algos = algos, !.output = output]
Kex_Taken == [Kex_Idle EXCEPT !.tag = "Taken"]

\* Kex::new, with the connection state around it
NewEngine(is_client, our_version, remote_version) ==
    [is_client |-> is_client, kex |-> Kex_Idle, sess_id |-> NoSessId,
     keys |-> KeyState_new_cleartext, sent |-> <<>>, room |-> 0,
     our_version |-> our_version, remote_version |-> remote_version]

\* TrafSend::send: the packet is queued, or there is no room for it
TrafSend_send(e, p) ==
    IF e.room = 0 THEN [err |-> E_NOROOM, e |-> e]
    ELSE [err |-> E_NONE, e |-> [e EXCEPT !.sent = Append(@, p), !.room = @ - 1]]

\* TrafSend::rekey
TrafSend_rekey(e, keys) == [e EXCEPT !.keys = KeyState_rekey(@, keys)]

\* Kex::make_kexinit
make_kexinit(cookie, conf) ==
    KexInitPkt(cookie, conf.kexs, conf.hostsig, conf.ciphers, conf.ciphers,
               conf.macs, conf.macs, conf.comps, conf.comps, FALSE)

\* SharedSecret::make_kexdhinit
make_kexdhinit(kex) == [ty |-> "KexDHInit", q_c |-> kex.pubkey]

PktNewKeys == [ty |-> "NewKeys"]

\* KexHash::new with our own version and KexInit first in either role
KexHash_new_OwnFirst(algos, conf, our_cookie, our_version, remote_version, remote_kexinit) ==
    IF remote_version = <<>> THEN [err |-> E_BUG, v |-> <<>>]
    ELSE [err |-> E_NONE,
          v |-> <<our_version, remote_version[1], make_kexinit(our_cookie, conf),
                  remote_kexinit>>]

\* KexHash::new: V_C, V_S, I_C, I_S in this order for either role
KexHash_new(algos, conf, our_cookie, our_version, remote_version, remote_kexinit) ==
    LET own_kexinit == make_kexinit(our_cookie, conf)
    IN  IF remote_version = <<>> THEN [err |-> E_BUG, v |-> <<>>]
        ELSE [err |-> E_NONE,
              v |-> IF algos.is_client
                    THEN <<our_version, remote_version[1], own_kexinit, remote_kexinit>>
                    ELSE <<remote_version[1], our_version, remote_kexinit, own_kexinit>>]

\* KexHash::prefinish: K_S, q_c, q_s
KexHash_prefinish(kh, host_key, q_c, q_s) == kh \o <<host_key, q_c, q_s>>

\* KexHash::finish: K, and the digest of it all
KexHash_finish(kh, k) == kh \o <<k>>

\* KexOutput::new
KexOutput_new(k, algos, kex_hash) == [h |-> KexHash_finish(kex_hash, k), k |-> k]

\* salty's agree: the same secret from either pair of halves
agree(ours, theirs) == IF ours <= theirs THEN <<ours, theirs>> ELSE <<theirs, ours>>

\* KexCurve25519::secret
KexCurve25519_secret(algos, theirs, kex_hash) ==
    IF algos.kex.ours = 0 THEN [err |-> E_BUG, algos |-> algos, out |-> NoOutput]
    ELSE IF theirs = 0 THEN [err |-> E_BADKEX, algos |-> algos, out |-> NoOutput]
    ELSE LET algos1 == [algos EXCEPT !.kex.ours = 0]
         IN  [err |-> E_NONE, algos |-> algos1,
              out |-> KexOutput_new(agree(algos.kex.ours, theirs), algos1, kex_hash)]

\* a host key, its public half and a signature by it (sign.rs)
HostKey(ty, id) == [ty |-> ty, id |-> id]
sign(hostkey, msg) == [key |-> hostkey, msg |-> msg]
\* SigType::verify: RSA is not implemented, a key of another type than the
\* signature is a mismatch
E_SIGMISMATCH == "SignatureMismatch"
SigType_verify(sigtype, k_s, msg, sig) ==
    IF sigtype # SSH_NAME_ED25519 THEN E_BADSIG
    ELSE IF k_s.ty # SSH_NAME_ED25519 THEN E_SIGMISMATCH
    ELSE IF sig = sign(k_s, msg) THEN E_NONE ELSE E_BADSIG

\* Kex::send_kexinit
Kex_send_kexinit(e, conf, cookie) ==
    IF e.kex.tag # "Idle" THEN [err |-> E_BUG, e |-> e]
    ELSE LET s == TrafSend_send(e, make_kexinit(cookie, conf))
         IN  IF s.err # E_NONE THEN s
             ELSE [err |-> E_NONE, e |-> [s.e EXCEPT !.kex = Kex_KexInit(cookie)]]

\* a mutant of Kex::handle_kexinit: the server sends a KexDHInit too
Kex_handle_kexinit_server_sends(e, remote_kexinit, algo_conf, cookie, rnd) ==
    LET r1 == IF e.kex.tag = "Idle" THEN Kex_send_kexinit(e, algo_conf, cookie)
              ELSE [err |-> E_NONE, e |-> e]
        n == AlgoNegotiation(e.is_client, remote_kexinit, algo_conf, rnd)
        r2 == TrafSend_send(r1.e, make_kexdhinit(n.algos.kex))
        kh == KexHash_new(n.algos, algo_conf, r1.e.kex.our_cookie, e.our_version,
                          e.remote_version, remote_kexinit)
    IN  IF r1.err # E_NONE THEN r1
        ELSE IF r1.e.kex.tag # "KexInit" THEN [err |-> E_PACKETWRONG, e |-> r1.e]
        ELSE IF n.err # E_NONE THEN [err |-> n.err, e |-> r1.e]
        ELSE IF r2.err # E_NONE THEN r2
        ELSE IF kh.err # E_NONE THEN [err |-> kh.err, e |-> r2.e]
        ELSE [err |-> E_NONE, e |-> [r2.e EXCEPT !.kex = Kex_KexDH(n.algos, kh.v)]]

\* Kex::handle_kexinit
Kex_handle_kexinit(e, remote_kexinit, algo_conf, cookie, rnd) ==
    LET r1 == IF e.kex.tag = "Idle" THEN Kex_send_kexinit(e, algo_conf, cookie)
              ELSE [err |-> E_NONE, e |-> e]
        n == AlgoNegotiation(e.is_client, remote_kexinit, algo_conf, rnd)
        r2 == IF e.is_client THEN TrafSend_send(r1.e, make_kexdhinit(n.algos.kex))
              ELSE [err |-> E_NONE, e |-> r1.e]
        kh == KexHash_new(n.algos, algo_conf, r1.e.kex.our_cookie, e.our_version,
                          e.remote_version, remote_kexinit)
    IN  IF r1.err # E_NONE THEN r1
        ELSE IF r1.e.kex.tag # "KexInit" THEN [err |-> E_PACKETWRONG, e |-> r1.e]
        ELSE IF n.err # E_NONE THEN [err |-> n.err, e |-> r1.e]
        ELSE IF r2.err # E_NONE THEN r2
        ELSE IF kh.err # E_NONE THEN [err |-> kh.err, e |-> r2.e]
        ELSE [err |-> E_NONE, e |-> [r2.e EXCEPT !.kex = Kex_KexDH(n.algos, kh.v)]]

\* SharedSecret::send_kexdhreply
send_kexdhreply(e, ko, kex_pub, hostkey) ==
    TrafSend_send(e, [ty |-> "KexDHReply", k_s |-> hostkey, q_s |-> kex_pub,
                      sig |-> sign(hostkey, ko.h)])

\* SignKey::can_sign
can_sign(hostkey, sigtype) == hostkey.ty = sigtype

\* SharedSecret::handle_kexdhinit (server)
SharedSecret_handle_kexdhinit(e, algos, kex_hash, p, hostkeys) ==
    LET usable == {i \in 1..Len(hostkeys) : can_sign(hostkeys[i], algos.hostsig)}
        hostkey == hostkeys[CHOOSE i \in usable : \A j \in usable : i <= j]
        kh == KexHash_prefinish(kex_hash, hostkey, p.q_c, algos.kex.pubkey)
        sec == KexCurve25519_secret(algos, p.q_c, kh)
        s == send_kexdhreply(e, sec.out, algos.kex.pubkey, hostkey)
    IN  IF usable = {} THEN [err |-> E_BUG, e |-> e, algos |-> algos, out |-> NoOutput]
        ELSE IF sec.err # E_NONE
             THEN [err |-> sec.err, e |-> e, algos |-> sec.algos, out |-> NoOutput]
        ELSE [err |-> s.err, e |-> s.e, algos |-> sec.algos, out |-> sec.out]

\* a mutant of SharedSecret::handle_kexdhreply: any answer of valid_hostkey
\* that is not an error accepts the key
SharedSecret_handle_kexdhreply_any_answer(algos, kex_hash, p, valid) ==
    LET kh == KexHash_prefinish(kex_hash, p.k_s, algos.kex.pubkey, p.q_s)
        sec == KexCurve25519_secret(algos, p.q_s, kh)
        v == SigType_verify(algos.hostsig, p.k_s, sec.out.h, p.sig)
    IN  IF sec.err # E_NONE THEN [err |-> sec.err, algos |-> sec.algos, out |-> NoOutput]
        ELSE IF v # E_NONE THEN [err |-> v, algos |-> sec.algos, out |-> NoOutput]
        ELSE IF valid = "err"
             THEN [err |-> E_BEHAVIOUR, algos |-> sec.algos, out |-> NoOutput]
        ELSE [err |-> E_NONE, algos |-> sec.algos, out |-> sec.out]

\* SharedSecret::handle_kexdhreply (client); `valid` is what the behaviour's
\* valid_hostkey answers: "true", "false" or "err"
SharedSecret_handle_kexdhreply(algos, kex_hash, p, valid) ==
    LET kh == KexHash_prefinish(kex_hash, p.k_s, algos.kex.pubkey, p.q_s)
        sec == KexCurve25519_secret(algos, p.q_s, kh)
        v == SigType_verify(algos.hostsig, p.k_s, sec.out.h, p.sig)
    IN  IF sec.err # E_NONE THEN [err |-> sec.err, algos |-> sec.algos, out |-> NoOutput]
        ELSE IF v # E_NONE THEN [err |-> v, algos |-> sec.algos, out |-> NoOutput]
        ELSE IF valid # "true"
             THEN [err |-> E_BEHAVIOUR, algos |-> sec.algos, out |-> NoOutput]
        ELSE [err |-> E_NONE, algos |-> sec.algos, out |-> sec.out]

\* `algos.discard_next = false` after a packet was ignored
ClearDiscardKeepsFlag(algos) == algos

ClearDiscard(algos) == [algos EXCEPT !.discard_next = FALSE]

\* `debug_assert!(!matches!(self, Kex::Taken))` in Kex::take: a build with
\* debug assertions panics where the other returns res
take_asserted(e, debug, res) ==
    IF debug /\ e.kex.tag = "Taken" THEN [err |-> E_PANIC, e |-> e] ELSE res

\* a mutant of Kex::take: the state is copied, not replaced
Kex_take_copies(e) == e

\* Kex::take
Kex_take(e) == [e EXCEPT !.kex = Kex_Taken]

\* a mutant of Kex::handle_kexdhinit: the role is not looked at
Kex_handle_kexdhinit_any_role(e, p, hostkeys) ==
    IF e.kex.tag = "KexDH" /\ e.kex.algos.discard_next
    THEN [err |-> E_NONE, e |-> [e EXCEPT !.kex.algos = ClearDiscard(@)]]
    ELSE IF e.kex.tag # "KexDH" THEN [err |-> E_PACKETWRONG, e |-> Kex_take(e)]
    ELSE LET r == SharedSecret_handle_kexdhinit(Kex_take(e), e.kex.algos,
                                                e.kex.kex_hash, p, hostkeys)
         IN  IF r.err # E_NONE THEN [err |-> r.err, e |-> r.e]
             ELSE TrafSend_send([r.e EXCEPT !.kex = Kex_NewKeys(r.out, r.algos)],
                                PktNewKeys)

\* Kex::handle_kexdhinit
Kex_handle_kexdhinit(e, p, hostkeys) ==
    IF e.kex.tag = "KexDH" /\ e.kex.algos.is_client THEN [err |-> E_BUG, e |-> e]
    ELSE IF e.kex.tag = "KexDH" /\ e.kex.algos.discard_next
         THEN [err |-> E_NONE, e |-> [e EXCEPT !.kex.algos = ClearDiscard(@)]]
    ELSE IF e.kex.tag # "KexDH" THEN [err |-> E_PACKETWRONG, e |-> Kex_take(e)]
    ELSE LET r == SharedSecret_handle_kexdhinit(Kex_take(e), e.kex.algos,
                                                e.kex.kex_hash, p, hostkeys)
         IN  IF r.err # E_NONE THEN [err |-> r.err, e |-> r.e]
             ELSE TrafSend_send([r.e EXCEPT !.kex = Kex_NewKeys(r.out, r.algos)],
                                PktNewKeys)

\* Kex::handle_kexdhreply
Kex_handle_kexdhreply(e, p, valid) ==
    IF e.kex.tag = "KexDH" /\ ~e.kex.algos.is_client THEN [err |-> E_BUG, e |-> e]
    ELSE IF e.kex.tag = "KexDH" /\ e.kex.algos.discard_next
         THEN [err |-> E_NONE, e |-> [e EXCEPT !.kex.algos = ClearDiscard(@)]]
    ELSE IF e.kex.tag # "KexDH" THEN [err |-> E_PACKETWRONG, e |-> Kex_take(e)]
    ELSE LET r == SharedSecret_handle_kexdhreply(e.kex.algos, e.kex.kex_hash, p, valid)
         IN  IF r.err # E_NONE THEN [err |-> r.err, e |-> Kex_take(e)]
             ELSE TrafSend_send([e EXCEPT !.kex = Kex_NewKeys(r.out, r.algos)],
                                PktNewKeys)

\* Keys::derive: the keys of Keys::new_from for the exchange's K and H
Keys_derive(output, sess_id, algos) ==
    Keys_new_from(output.k, output.h, sess_id, algos)

\* `sess_id.get_or_insert(output.h.clone())`
SessIdReplace(sess_id, h) == SomeSessId(h)

SessIdGetOrInsert(sess_id, h) == IF sess_id = NoSessId THEN SomeSessId(h) ELSE sess_id

\* a mutant of Kex::handle_newkeys: the keys derived are not taken into use
Kex_handle_newkeys_keeps_keys(e) ==
    IF e.kex.tag # "NewKeys" THEN [err |-> E_PACKETWRONG, e |-> Kex_take(e)]
    ELSE LET sid == SessIdGetOrInsert(e.sess_id, e.kex.output.h)
             d == Keys_derive(e.kex.output, sid[1], e.kex.algos)
             e1 == [Kex_take(e) EXCEPT !.sess_id = sid]
         IN  IF d.err # E_NONE THEN [err |-> d.err, e |-> e1]
             ELSE [err |-> E_NONE, e |-> [e1 EXCEPT !.kex = Kex_Idle]]

\* Kex::handle_newkeys
Kex_handle_newkeys(e) ==
    IF e.kex.tag # "NewKeys" THEN [err |-> E_PACKETWRONG, e |-> Kex_take(e)]
    ELSE LET sid == SessIdGetOrInsert(e.sess_id, e.kex.output.h)
             d == Keys_derive(e.kex.output, sid[1], e.kex.algos)
             e1 == [Kex_take(e) EXCEPT !.sess_id = sid]
         IN  IF d.err # E_NONE THEN [err |-> d.err, e |-> e1]
             ELSE [err |-> E_NONE, e |-> [TrafSend_rekey(e1, d.keys) EXCEPT !.kex = Kex_Idle]]

(***************************************************************************)
(* Client authentication (cliauth.rs, client.rs).  The behaviour's         *)
(* answers are inputs of each handler; every handler returns its error,    *)
(* the CliAuth, the sender, the parse context and the behaviour calls it   *)
(* made.  A signature is named by its key and the message signed.          *)
(***************************************************************************)
SSH_SERVICE_USERAUTH == "ssh-userauth"
SSH_SERVICE_CONNECTION == "ssh-connection"
SSH_AUTHMETHOD_PASSWORD == "password"
SSH_AUTHMETHOD_PUBLICKEY == "publickey"

\* Error::BehaviourError { msg }
E_NO_PASSWORD == "BehaviourError: No password returned"
E_NO_METHODS == "BehaviourError: No authentication methods left"

\* Option<AuthType> of ParseContext::cli_auth_type
CTX_NONE == "None"
CTX_PASSWORD == "Some(Password)"
CTX_PUBKEY == "Some(PubKey)"

\* SignKey: id names the key pair, agent says the private half is held by
\* an agent; SignKey::pubkey is the id
NoKey == [id |-> 0, agent |-> FALSE]
SignKey_pubkey(key) == key.id
SignKey_is_agent(key) == key.agent

\* Option<OwnedSig>
NoSig == <<>>
SomeSig(sig) == <<sig>>

\* enum Req
Req_None == [ty |-> "", pw |-> "", key |-> NoKey]
Req_Password(pw) == [ty |-> "Password", pw |-> pw, key |-> NoKey]
Req_PubKey(key) == [ty |-> "PubKey", pw |-> "", key |-> key]

\* enum AuthState
AuthState_Unstarted == [tag |-> "Unstarted", last_req |-> Req_None]
AuthState_MethodQuery == [tag |-> "MethodQuery", last_req |-> Req_None]
AuthState_Request(req) == [tag |-> "Request", last_req |-> req]
AuthState_Idle == [tag |-> "Idle", last_req |-> Req_None]

\* packets sent during authentication
AuthPkt(ty, name, username, service, method, pubkey, sig, password) ==
    [ty |-> ty, name |-> name, username |-> username, service |-> service,
     method |-> method, pubkey |-> pubkey, sig |-> sig, password |-> password]
PktServiceRequest(name) == AuthPkt("ServiceRequest", name, "", "", "", 0, NoSig, "")
PktUserauthRequest(username, service, method, pubkey, sig, password) ==
    AuthPkt("UserauthRequest", "", username, service, method, pubkey, sig, password)

\* the behaviour calls a handler made
NoCalls == [username |-> 0, authkey |-> 0, password |-> 0, sign |-> 0, authenticated |-> 0]

\* what a handler returns
AuthRet(err, a, s, ctx, calls) == [err |-> err, a |-> a, s |-> s, ctx |-> ctx, calls |-> calls]
AuthPanic(a, s, ctx, calls) == AuthRet(E_PANIC, a, s, ctx, calls)

\* Req::req_packet: the packet, and the parse context it leaves
Req_req_packet(req, username, sig) ==
    IF req.ty = "PubKey"
    THEN [ctx |-> CTX_PUBKEY,
          p |-> PktUserauthRequest(username, SSH_SERVICE_CONNECTION,
                                   SSH_AUTHMETHOD_PUBLICKEY, SignKey_pubkey(req.key), sig, "")]
    ELSE [ctx |-> CTX_PASSWORD,
          p |-> PktUserauthRequest(username, SSH_SERVICE_CONNECTION,
                                   SSH_AUTHMETHOD_PASSWORD, 0, NoSig, req.pw)]

\* CliAuth::new
CliAuth_new ==
    [state |-> AuthState_Unstarted, username |-> "", try_password |-> TRUE,
     try_pubkey |-> TRUE, allow_rsa_sha2 |-> FALSE]

\* CliAuth::progress
CliAuth_progress(a, s, ctx, b) ==
    IF a.state.tag # "Unstarted" THEN AuthRet(E_NONE, a, s, ctx, NoCalls)
    ELSE LET a1 == [a EXCEPT !.state = AuthState_MethodQuery]
             a2 == [a1 EXCEPT !.username = b.username.v]
             c == [NoCalls EXCEPT !.username = 1]
             r1 == TrafSend_send(s, PktServiceRequest(SSH_SERVICE_USERAUTH))
             r2 == TrafSend_send(r1.e, PktUserauthRequest(a2.username, SSH_SERVICE_CONNECTION,
                                                          SSH_NAME_NONE, 0, NoSig, ""))
         IN  IF b.username.err # E_NONE THEN AuthRet(b.username.err, a1, s, ctx, c)
             ELSE IF r1.err # E_NONE THEN AuthRet(r1.err, a2, r1.e, ctx, c)
             ELSE AuthRet(r2.err, a2, r2.e, ctx, c)

\* CliAuth::make_password_req
CliAuth_make_password_req(b) ==
    IF b.password.err # E_NONE THEN [err |-> E_NO_PASSWORD, some |-> FALSE, req |-> Req_None]
    ELSE IF b.password.r THEN [err |-> E_NONE, some |-> TRUE, req |-> Req_Password(b.password.pw)]
    ELSE [err |-> E_NONE, some |-> FALSE, req |-> Req_None]

\* CliAuth::make_pubkey_req that goes on asking for keys after None
CliAuth_make_pubkey_req_keep_trying(a, b) ==
    IF b.authkey.err = E_NONE /\ b.authkey.some
    THEN [a |-> a, some |-> TRUE, req |-> Req_PubKey(b.authkey.key)]
    ELSE [a |-> a, some |-> FALSE, req |-> Req_None]

\* CliAuth::make_pubkey_req: an error of next_authkey counts as None
CliAuth_make_pubkey_req(a, b) ==
    IF b.authkey.err = E_NONE /\ b.authkey.some
    THEN [a |-> a, some |-> TRUE, req |-> Req_PubKey(b.authkey.key)]
    ELSE [a |-> [a EXCEPT !.try_pubkey = FALSE], some |-> FALSE, req |-> Req_None]

\* AuthSigMsg::new
AuthSigMsg_new(sig_packet, sess_id) == [sess_id |-> sess_id, p |-> sig_packet]

\* SignKey::sign, CliBehaviour::agent_sign when it signs
Sign(key, msg) == [signer |-> key.id, msg |-> msg]

\* CliAuth::auth_sig_msg
CliAuth_auth_sig_msg(key, sess_id, p, b) ==
    IF ~(p.ty = "UserauthRequest" /\ p.method = SSH_AUTHMETHOD_PUBLICKEY)
    THEN [err |-> E_BUG, sig |-> NoSig, asked |-> 0]
    ELSE IF SignKey_is_agent(key)
    THEN IF b.sign_err # E_NONE THEN [err |-> b.sign_err, sig |-> NoSig, asked |-> 1]
         ELSE [err |-> E_NONE, asked |-> 1,
               sig |-> SomeSig(Sign(key, AuthSigMsg_new([p EXCEPT !.sig = NoSig], sess_id)))]
    ELSE [err |-> E_NONE, asked |-> 0,
          sig |-> SomeSig(Sign(key, AuthSigMsg_new([p EXCEPT !.sig = NoSig], sess_id)))]

\* CliAuth::auth_pkok that does not compare the key
CliAuth_auth_pkok_any_key(a, pkok, sess_id, ctx, s, b) ==
    IF a.state.tag = "Request" /\ a.state.last_req.ty = "PubKey"
    THEN LET r == TrafSend_send(s, Req_req_packet(a.state.last_req, a.username,
                       CliAuth_auth_sig_msg(a.state.last_req.key, sess_id,
                           Req_req_packet(a.state.last_req, a.username, NoSig).p, b).sig).p)
         IN  AuthRet(r.err, a, r.e, CTX_PUBKEY, NoCalls)
    ELSE AuthRet(E_SSHPROTO, a, s, ctx, NoCalls)

\* the rest of CliAuth::auth_pkok once the signature attempt `sg` is known
CliAuth_auth_pkok_signed(a, s, sg) ==
    IF sg.err # E_NONE
    THEN AuthRet(sg.err, a, s, CTX_PUBKEY, [NoCalls EXCEPT !.sign = sg.asked])
    ELSE LET r == TrafSend_send(s, Req_req_packet(a.state.last_req, a.username, sg.sig).p)
         IN  AuthRet(r.err, a, r.e, CTX_PUBKEY, [NoCalls EXCEPT !.sign = sg.asked])

\* CliAuth::auth_pkok
CliAuth_auth_pkok(a, pkok, sess_id, ctx, s, b) ==
    IF a.state.tag = "Request" /\ a.state.last_req.ty = "PubKey"
    THEN IF SignKey_pubkey(a.state.last_req.key) # pkok.key
         THEN AuthRet(E_SSHPROTO, a, s, ctx, NoCalls)
         ELSE CliAuth_auth_pkok_signed(a, s,
                  CliAuth_auth_sig_msg(a.state.last_req.key, sess_id,
                      Req_req_packet(a.state.last_req, a.username, NoSig).p, b))
    ELSE AuthRet(E_SSHPROTO, a, s, ctx, NoCalls)

\* enum Userauth60
Userauth60_PkOk(algo, key) == [ty |-> "PkOk", algo |-> algo, key |-> key]
Userauth60_PwChangeReq(prompt, key) == [ty |-> "PwChangeReq", algo |-> prompt, key |-> key]

\* Userauth60::dec: the two fields of message 60 read by the parse context
Userauth60_dec(ctx, f1, f2) ==
    IF ctx = CTX_PASSWORD THEN [err |-> E_NONE, v |-> Userauth60_PwChangeReq(f1, f2)]
    ELSE IF ctx = CTX_PUBKEY THEN [err |-> E_NONE, v |-> Userauth60_PkOk(f1, f2)]
    ELSE [err |-> E_PACKETWRONG, v |-> Userauth60_PkOk("", 0)]

\* CliAuth::auth60: todo!() panics
CliAuth_auth60(a, auth60, sess_id, ctx, s, b) ==
    IF auth60.ty = "PkOk" THEN CliAuth_auth_pkok(a, auth60, sess_id, CTX_NONE, s, b)
    ELSE AuthPanic(a, s, CTX_NONE, NoCalls)

\* the end of CliAuth::failure that reports success when no method is left
CliAuth_failure_send_lenient(a, s, calls) ==
    IF a.state.tag = "Request"
    THEN LET p == Req_req_packet(a.state.last_req, a.username, NoSig)
             r == TrafSend_send(s, p.p)
         IN  AuthRet(r.err, a, r.e, p.ctx, calls)
    ELSE AuthRet(E_NONE, a, s, CTX_NONE, calls)

\* the end of CliAuth::failure: the request is sent, or none is left
CliAuth_failure_send(a, s, calls) ==
    IF a.state.tag = "Request"
    THEN LET p == Req_req_packet(a.state.last_req, a.username, NoSig)
             r == TrafSend_send(s, p.p)
         IN  AuthRet(r.err, a, r.e, p.ctx, calls)
    ELSE AuthRet(E_NO_METHODS, a, s, CTX_NONE, calls)

\* a mutant of the password part of CliAuth::failure: a declined password
\* does not clear try_password
CliAuth_failure_password_asks_again(a, methods, s, b, calls) ==
    IF a.state.tag = "Idle" /\ a.try_password /\ has_algo(methods, SSH_AUTHMETHOD_PASSWORD)
    THEN LET r == CliAuth_make_password_req(b)
             c == [calls EXCEPT !.password = 1]
         IN  IF r.err # E_NONE THEN AuthRet(r.err, a, s, CTX_NONE, c)
             ELSE IF r.some
             THEN CliAuth_failure_send([a EXCEPT !.state = AuthState_Request(r.req)], s, c)
             ELSE CliAuth_failure_send(a, s, c)
    ELSE CliAuth_failure_send(a, s, calls)

\* the password part of CliAuth::failure
CliAuth_failure_password(a, methods, s, b, calls) ==
    IF a.state.tag = "Idle" /\ a.try_password /\ has_algo(methods, SSH_AUTHMETHOD_PASSWORD)
    THEN LET r == CliAuth_make_password_req(b)
             c == [calls EXCEPT !.password = 1]
         IN  IF r.err # E_NONE THEN AuthRet(r.err, a, s, CTX_NONE, c)
             ELSE IF r.some
             THEN CliAuth_failure_send([a EXCEPT !.state = AuthState_Request(r.req)], s, c)
             ELSE CliAuth_failure_send([a EXCEPT !.try_password = FALSE], s, c)
    ELSE CliAuth_failure_send(a, s, calls)

\* the public key part of CliAuth::failure where an error of next_authkey
\* ends password authentication too
CliAuth_failure_pubkey_err_ends(a, methods, b) ==
    IF has_algo(methods, SSH_AUTHMETHOD_PUBLICKEY) /\ a.try_pubkey
    THEN LET r == CliAuth_make_pubkey_req(a, b)
         IN  [a |-> IF r.some THEN [r.a EXCEPT !.state = AuthState_Request(r.req)]
                    ELSE IF b.authkey.err # E_NONE THEN [r.a EXCEPT !.try_password = FALSE]
                    ELSE r.a,
              calls |-> [NoCalls EXCEPT !.authkey = 1]]
    ELSE [a |-> a, calls |-> NoCalls]

\* the public key part of CliAuth::failure: the loop asks for one key, and
\* ends with a request or with try_pubkey false
CliAuth_failure_pubkey(a, methods, b) ==
    IF has_algo(methods, SSH_AUTHMETHOD_PUBLICKEY) /\ a.try_pubkey
    THEN LET r == CliAuth_make_pubkey_req(a, b)
         IN  [a |-> IF r.some THEN [r.a EXCEPT !.state = AuthState_Request(r.req)] ELSE r.a,
              calls |-> [NoCalls EXCEPT !.authkey = 1]]
    ELSE [a |-> a, calls |-> NoCalls]

\* CliAuth::failure that asks for a password first
CliAuth_failure_password_first(a, failure, ctx, s, b) ==
    LET r == CliAuth_failure_password([a EXCEPT !.state = AuthState_Idle],
                                      failure.methods, s, b, NoCalls)
    IN  IF r.err = E_NO_METHODS
        THEN LET k == CliAuth_failure_pubkey(r.a, failure.methods, b)
             IN  CliAuth_failure_send(k.a, s, [r.calls EXCEPT !.authkey = k.calls.authkey])
        ELSE r

\* CliAuth::failure
CliAuth_failure(a, failure, ctx, s, b) ==
    LET k == CliAuth_failure_pubkey([a EXCEPT !.state = AuthState_Idle], failure.methods, b)
    IN  CliAuth_failure_password(k.a, failure.methods, s, b, k.calls)

\* CliAuth::success that leaves the state as it was
CliAuth_success_keeps_state(a) == a

\* CliAuth::success
CliAuth_success(a) == [a EXCEPT !.state = AuthState_Idle]

\* Client::auth_success
Client_auth_success_keeps_ctx(a, ctx, s) ==
    LET r == TrafSend_send(s, PktServiceRequest(SSH_SERVICE_CONNECTION))
    IN  IF r.err # E_NONE THEN AuthRet(r.err, a, r.e, ctx, NoCalls)
        ELSE AuthRet(E_NONE, CliAuth_success(a), r.e, ctx,
                     [NoCalls EXCEPT !.authenticated = 1])
Client_auth_success(a, ctx, s) ==
    LET r == TrafSend_send(s, PktServiceRequest(SSH_SERVICE_CONNECTION))
    IN  IF r.err # E_NONE THEN AuthRet(r.err, a, r.e, CTX_NONE, NoCalls)
        ELSE AuthRet(E_NONE, CliAuth_success(a), r.e, CTX_NONE,
                     [NoCalls EXCEPT !.authenticated = 1])

(***************************************************************************)
(* The wire codec: the encoders and decoders that the SSHEncode and        *)
(* SSHDecode derive macros (src/sshwire_derive/src/lib.rs) generate for    *)
(* the packet types of src/src/packets.rs, and the hand-written ones of    *)
(* MethodPubKey and Userauth60.  The wire is a sequence of items, one per  *)
(* primitive written: a byte, a big-endian u32, a bool, a length-prefixed  *)
(* string, or a blob (the length-prefixed encoding of an inner value).     *)
(***************************************************************************)
E_RANOUT == "RanOut"
E_UNKNOWNPACKET == "UnknownPacket"

WU8(n) == [t |-> "u8", v |-> n]
WU32(n) == [t |-> "u32", v |-> n]
WBool(b) == [t |-> "bool", v |-> b]
WStr(x) == [t |-> "string", v |-> x]
WBlob(items) == [t |-> "blob", v |-> items]

\* ParseContext: the client's authentication type and the flag that makes
\* MethodPubKey write its boolean as true (seen_unknown is never written)
ParseContext(auth_type, force) ==
    [cli_auth_type |-> auth_type, method_pubkey_force_sig_bool |-> force]
ParseContext_new == ParseContext(CTX_NONE, FALSE)

\* the types: primitives, Blob<T>, structs as the sequence of their fields,
\* enums as the sequence of their variants
T_unit == [k |-> "unit"]
T_u32 == [k |-> "u32"]
T_bool == [k |-> "bool"]
T_str == [k |-> "string"]
T_Blob(inner) == [k |-> "Blob", of |-> inner]
T_Option(inner) == [k |-> "Option", of |-> inner]
T_struct(fields) == [k |-> "struct", fields |-> fields]
T_enum(prefix, variants) ==
    [k |-> "enum", variant_prefix |-> prefix, variants |-> variants]
\* a field; variant_name is the #[sshwire(variant_name = X)] attribute, or ""
Field(name, ty) == [name |-> name, ty |-> ty, variant_name |-> ""]
FieldNaming(name, ty, x) == [name |-> name, ty |-> ty, variant_name |-> x]
\* a variant: #[sshwire(variant = name)] with one value or none, or
\* #[sshwire(unknown)]
Variant(tag, name, ty) ==
    [tag |-> tag, name |-> name, unit |-> FALSE, unknown |-> FALSE, ty |-> ty]
UnitVariant(tag, name) ==
    [tag |-> tag, name |-> name, unit |-> TRUE, unknown |-> FALSE, ty |-> T_unit]
UnknownVariant ==
    [tag |-> "Unknown", name |-> "", unit |-> FALSE, unknown |-> TRUE, ty |-> T_unit]

\* values: numbers, booleans and strings for the primitives, a record for a
\* struct, [tag, val] for an enum, <<>> or <<x>> for an Option
NoVal == <<>>
EnumVal(tag, val) == [tag |-> tag, val |-> val]
UnitVal(tag) == [tag |-> tag, val |-> NoVal]
Unknown(name) == [tag |-> "Unknown", val |-> name]

VariantOf(ty, tag) ==
    ty.variants[CHOOSE i \in 1..Len(ty.variants) : ty.variants[i].tag = tag]
FieldOf(ty, name) ==
    ty.fields[CHOOSE i \in 1..Len(ty.fields) : ty.fields[i].name = name]

WireOk(s) == [err |-> E_NONE, s |-> s]
WireErr(e, s) == [err |-> e, s |-> s]

\* variant_name(): the wire name of a value's variant; Unknown has none
variant_name(ty, v) ==
    IF VariantOf(ty, v.tag).unknown
    THEN [err |-> E_BUG, name |-> ""]
    ELSE [err |-> E_NONE, name |-> VariantOf(ty, v.tag).name]

RECURSIVE enc(_, _, _, _)
RECURSIVE encode_fields(_, _, _, _, _)

\* MethodPubKey::enc: the boolean is true when there is a signature or the
\* context forces it; the signature itself is written only when present
MethodPubKey_enc(ty, v, s, ctx) ==
    LET sig == v.sig # NoVal \/ ctx.method_pubkey_force_sig_bool
    IN  encode_fields(ty, 1, v, Append(s, WBool(sig)), ctx)

\* SSHEncode of an enum: the name first under variant_prefix, then the
\* variant's value; the Unknown variant cannot be encoded
encode_enum(ty, v, s, ctx) ==
    LET nm == variant_name(ty, v)
        s1 == IF ty.variant_prefix THEN Append(s, WStr(nm.name)) ELSE s
        var == VariantOf(ty, v.tag)
    IN  IF ty.variant_prefix /\ nm.err # E_NONE THEN WireErr(nm.err, s)
        ELSE IF var.unknown THEN WireErr(E_BUG, s1)
        ELSE IF var.unit THEN WireOk(s1)
        ELSE enc(var.ty, v.val, s1, ctx)

\* SSHEncode of a struct from its field i on: before a field that carries
\* variant_name = X the variant name of field X, then the field
encode_fields(ty, i, v, s, ctx) ==
    IF i > Len(ty.fields) THEN WireOk(s)
    ELSE
        LET f == ty.fields[i]
            nm == variant_name(FieldOf(ty, f.variant_name).ty, v[f.variant_name])
            s1 == IF f.variant_name = "" THEN s ELSE Append(s, WStr(nm.name))
            r == enc(f.ty, v[f.name], s1, ctx)
        IN  IF f.variant_name # "" /\ nm.err # E_NONE THEN WireErr(nm.err, s)
            ELSE IF r.err # E_NONE THEN r
            ELSE encode_fields(ty, i + 1, v, r.s, ctx)

\* SSHEncode::enc of a value of type ty into the sink s
enc(ty, v, s, ctx) ==
    CASE ty.k = "u32" -> WireOk(Append(s, WU32(v)))
      [] ty.k = "bool" -> WireOk(Append(s, WBool(v)))
      [] ty.k = "string" -> WireOk(Append(s, WStr(v)))
      [] ty.k = "Blob" ->
            LET r == enc(ty.of, v, <<>>, ctx)
            IN  IF r.err # E_NONE THEN WireErr(r.err, s)
                ELSE WireOk(Append(s, WBlob(r.s)))
      [] ty.k = "Option" ->
            IF v = NoVal THEN WireOk(s) ELSE enc(ty.of, v[1], s, ctx)
      [] ty.k = "struct" -> encode_fields(ty, 1, v, s, ctx)
      [] ty.k = "MethodPubKey" -> MethodPubKey_enc(ty, v, s, ctx)
      [] ty.k \in {"enum", "Userauth60"} -> encode_enum(ty, v, s, ctx)

(***************************************************************************)
(* Decoding.  A source is the sequence of items not yet read; a decoder    *)
(* returns an error, or a value and the rest of the source.                *)
(***************************************************************************)
DecOk(val, s) == [err |-> E_NONE, val |-> val, s |-> s]
DecErr(e, s) == [err |-> e, val |-> NoVal, s |-> s]

\* the next primitive of kind t; a text string may be read from any
\* length-prefixed item, and then holds that item's bytes
take_item(s, t) ==
    IF s = <<>> THEN DecErr(E_RANOUT, s)
    ELSE IF Head(s).t = t \/ (t = "string" /\ Head(s).t = "blob")
    THEN DecOk(Head(s).v, Tail(s))
    ELSE DecErr(E_SSHPROTO, s)

RECURSIVE dec(_, _, _)
RECURSIVE dec_enum(_, _, _, _, _)
RECURSIVE decode_fields(_, _, _, _, _, _)
RECURSIVE dec_enum_known_only(_, _, _, _, _)

\* Blob::dec: the inner parse is bounded to the blob's bytes.  The bytes of
\* a text string read as a blob hold no inner value (the text of a
\* password change request is shorter here than a length prefix)
Blob_dec(ty, s, ctx) ==
    IF s = <<>> THEN DecErr(E_RANOUT, s)
    ELSE IF Head(s).t \notin {"blob", "string"} THEN DecErr(E_SSHPROTO, s)
    ELSE
        LET r == dec(ty.of, IF Head(s).t = "blob" THEN Head(s).v ELSE <<>>, ctx)
        IN  IF r.err # E_NONE THEN DecErr(r.err, s) ELSE DecOk(r.val, Tail(s))

\* a mutant of dec_enum: a name that is no known variant is refused
dec_enum_known_only(ty, i, variant, s, ctx) ==
    IF i > Len(ty.variants) \/ ty.variants[i].unknown THEN DecErr(E_SSHPROTO, s)
    ELSE IF ty.variants[i].name # variant THEN dec_enum_known_only(ty, i + 1, variant, s, ctx)
    ELSE IF ty.variants[i].unit THEN DecOk(UnitVal(ty.variants[i].tag), s)
    ELSE LET r == dec(ty.variants[i].ty, s, ctx)
         IN  IF r.err # E_NONE THEN r
             ELSE DecOk(EnumVal(ty.variants[i].tag, r.val), r.s)

\* SSHDecodeEnum::dec_enum: the match on the variant name, from arm i on.
\* The arms stand in the order of the variants; the arm of the Unknown
\* variant takes every name and keeps it
dec_enum(ty, i, variant, s, ctx) ==
    IF i > Len(ty.variants) THEN DecErr(E_SSHPROTO, s)
    ELSE IF ty.variants[i].unknown THEN DecOk(Unknown(variant), s)
    ELSE IF ty.variants[i].name # variant THEN dec_enum(ty, i + 1, variant, s, ctx)
    ELSE IF ty.variants[i].unit THEN DecOk(UnitVal(ty.variants[i].tag), s)
    ELSE LET r == dec(ty.variants[i].ty, s, ctx)
         IN  IF r.err # E_NONE THEN r
             ELSE DecOk(EnumVal(ty.variants[i].tag, r.val), r.s)

\* SSHDecode of an enum with variant_prefix: the name, then the match
decode_enum_variant_prefix(ty, s, ctx) ==
    LET variant == take_item(s, "string")
    IN  IF variant.err # E_NONE THEN variant
        ELSE dec_enum(ty, 1, variant.val, variant.s, ctx)

\* the name read for the enum field x, or none
EnumNameOf(names, x) ==
    IF \E j \in 1..Len(names) : names[j][1] = x
    THEN <<names[CHOOSE j \in 1..Len(names) : names[j][1] = x][2]>>
    ELSE <<>>

\* SSHDecode of a struct from its field i on: before a field that carries
\* variant_name = X the name of X is read; a field whose name was read is
\* decoded by dec_enum under that name
decode_fields(ty, i, names, vals, s, ctx) ==
    IF i > Len(ty.fields)
    THEN DecOk([n \in {ty.fields[j].name : j \in 1..Len(ty.fields)} |->
                    vals[CHOOSE j \in 1..Len(ty.fields) : ty.fields[j].name = n]], s)
    ELSE
        LET f == ty.fields[i]
            nm == take_item(s, "string")
            names1 == IF f.variant_name = "" THEN names
                      ELSE Append(names, <<f.variant_name, nm.val>>)
            s1 == IF f.variant_name = "" THEN s ELSE nm.s
            named == EnumNameOf(names1, f.name)
            r == IF named # <<>> THEN dec_enum(f.ty, 1, named[1], s1, ctx)
                 ELSE dec(f.ty, s1, ctx)
        IN  IF f.variant_name # "" /\ nm.err # E_NONE THEN nm
            ELSE IF r.err # E_NONE THEN r
            ELSE decode_fields(ty, i + 1, names1, Append(vals, r.val), r.s, ctx)

\* a mutant of MethodPubKey::dec: the signature is never read
MethodPubKey_dec_unsigned(ty, s, ctx) ==
    LET sig == take_item(s, "bool")
        sig_algo == take_item(sig.s, "string")
        pubkey == dec(FieldOf(ty, "pubkey").ty, sig_algo.s, ctx)
    IN  IF sig.err # E_NONE THEN sig
        ELSE IF sig_algo.err # E_NONE THEN sig_algo
        ELSE IF pubkey.err # E_NONE THEN pubkey
        ELSE DecOk([sig_algo |-> sig_algo.val, pubkey |-> pubkey.val,
                    sig |-> NoVal], pubkey.s)

\* MethodPubKey::dec: the signature is read when the boolean says so
MethodPubKey_dec(ty, s, ctx) ==
    LET sig == take_item(s, "bool")
        sig_algo == take_item(sig.s, "string")
        pubkey == dec(FieldOf(ty, "pubkey").ty, sig_algo.s, ctx)
        blob == dec(FieldOf(ty, "sig").ty.of, pubkey.s, ctx)
    IN  IF sig.err # E_NONE THEN sig
        ELSE IF sig_algo.err # E_NONE THEN sig_algo
        ELSE IF pubkey.err # E_NONE THEN pubkey
        ELSE IF ~sig.val
        THEN DecOk([sig_algo |-> sig_algo.val, pubkey |-> pubkey.val,
                    sig |-> NoVal], pubkey.s)
        ELSE IF blob.err # E_NONE THEN blob
        ELSE DecOk([sig_algo |-> sig_algo.val, pubkey |-> pubkey.val,
                    sig |-> <<blob.val>>], blob.s)

\* Userauth60::dec: the variant is the one the client's authentication
\* type calls for
Userauth60_wire_dec(ty, s, ctx) ==
    LET tag == IF ctx.cli_auth_type = CTX_PASSWORD THEN "PwChangeReq" ELSE "PkOk"
        r == dec(VariantOf(ty, tag).ty, s, ctx)
    IN  IF ctx.cli_auth_type \notin {CTX_PASSWORD, CTX_PUBKEY}
        THEN DecErr(E_PACKETWRONG, s)
        ELSE IF r.err # E_NONE THEN r
        ELSE DecOk(EnumVal(tag, r.val), r.s)

\* SSHDecode::dec of a value of type ty from the source s
dec(ty, s, ctx) ==
    CASE ty.k \in {"u32", "bool", "string"} -> take_item(s, ty.k)
      [] ty.k = "Blob" -> Blob_dec(ty, s, ctx)
      [] ty.k = "struct" -> decode_fields(ty, 1, <<>>, <<>>, s, ctx)
      [] ty.k = "MethodPubKey" -> MethodPubKey_dec(ty, s, ctx)
      [] ty.k = "Userauth60" -> Userauth60_wire_dec(ty, s, ctx)
      [] ty.k = "enum" -> decode_enum_variant_prefix(ty, s, ctx)

(***************************************************************************)
(* The packet types of src/src/packets.rs that carry tagged unions         *)
(***************************************************************************)
SSH_NAME_RSA == "ssh-rsa"

T_Ed25519PubKey == T_struct(<<Field("key", T_str)>>)
T_RSAPubKey == T_struct(<<Field("e", T_str), Field("n", T_str)>>)
T_PubKey ==
    T_enum(TRUE, <<Variant("Ed25519", SSH_NAME_ED25519, T_Ed25519PubKey),
                   Variant("RSA", SSH_NAME_RSA, T_RSAPubKey),
                   UnknownVariant>>)
T_Sig == T_struct(<<Field("sig", T_str)>>)
T_Signature ==
    T_enum(TRUE, <<Variant("Ed25519", SSH_NAME_ED25519, T_Sig),
                   Variant("RSA256", SSH_NAME_RSA_SHA256, T_Sig),
                   UnknownVariant>>)

T_ServiceRequest == T_struct(<<Field("name", T_str)>>)

T_MethodPassword == T_struct(<<Field("change", T_bool), Field("password", T_str)>>)
T_MethodPubKey ==
    [k |-> "MethodPubKey",
     fields |-> <<Field("sig_algo", T_str), Field("pubkey", T_Blob(T_PubKey)),
                  Field("sig", T_Option(T_Blob(T_Signature)))>>]
T_AuthMethod ==
    T_enum(TRUE, <<Variant("Password", SSH_AUTHMETHOD_PASSWORD, T_MethodPassword),
                   Variant("PubKey", SSH_AUTHMETHOD_PUBLICKEY, T_MethodPubKey),
                   UnitVariant("None", SSH_NAME_NONE),
                   UnknownVariant>>)
T_UserauthRequest ==
    T_struct(<<Field("username", T_str), Field("service", T_str),
               Field("method", T_AuthMethod)>>)

T_UserauthPkOk == T_struct(<<Field("algo", T_str), Field("key", T_Blob(T_PubKey))>>)
T_UserauthPwChangeReq == T_struct(<<Field("prompt", T_str), Field("lang", T_str)>>)
\* no_variant_names: the encoding is that of the variant's value alone
T_Userauth60 ==
    [k |-> "Userauth60", variant_prefix |-> FALSE,
     variants |-> <<Variant("PkOk", "", T_UserauthPkOk),
                    Variant("PwChangeReq", "", T_UserauthPwChangeReq)>>]

T_Tcpip ==
    T_struct(<<Field("address", T_str), Field("port", T_u32),
               Field("origin", T_str), Field("origin_port", T_u32)>>)
T_ChannelOpenType ==
    T_enum(FALSE, <<UnitVariant("Session", "session"),
                    Variant("ForwardedTcpip", "forwarded-tcpip", T_Tcpip),
                    Variant("DirectTcpip", "direct-tcpip", T_Tcpip),
                    UnknownVariant>>)
T_ChannelOpen ==
    T_struct(<<FieldNaming("num", T_u32, "ty"), Field("initial_window", T_u32),
               Field("max_packet", T_u32), Field("ty", T_ChannelOpenType)>>)

T_ChannelReqType ==
    T_enum(FALSE, <<UnitVariant("Shell", "shell"),
                    Variant("Exec", "exec", T_struct(<<Field("command", T_str)>>)),
                    Variant("ExitStatus", "exit-status",
                            T_struct(<<Field("status", T_u32)>>)),
                    UnknownVariant>>)
T_ChannelRequest ==
    T_struct(<<Field("num", T_u32), FieldNaming("want_reply", T_bool, "req"),
               Field("req", T_ChannelReqType)>>)

\* the message numbers and the packet type of each
MessageTypes ==
    <<[num |-> 5, tag |-> "ServiceRequest", ty |-> T_ServiceRequest],
      [num |-> 50, tag |-> "UserauthRequest", ty |-> T_UserauthRequest],
      [num |-> 60, tag |-> "Userauth60", ty |-> T_Userauth60],
      [num |-> 90, tag |-> "ChannelOpen", ty |-> T_ChannelOpen],
      [num |-> 98, tag |-> "ChannelRequest", ty |-> T_ChannelRequest]>>
MessageOf(tag) ==
    MessageTypes[CHOOSE i \in 1..Len(MessageTypes) : MessageTypes[i].tag = tag]

\* Packet::enc: the message number, then the packet
Packet_enc(p, s, ctx) ==
    enc(MessageOf(p.tag).ty, p.val, Append(s, WU8(MessageOf(p.tag).num)), ctx)

\* Packet::dec: the message number selects the packet type
Packet_dec(s, ctx) ==
    LET msg_num == take_item(s, "u8")
        known == {i \in 1..Len(MessageTypes) : MessageTypes[i].num = msg_num.val}
        ty == MessageTypes[CHOOSE i \in known : TRUE]
        r == dec(ty.ty, msg_num.s, ctx)
    IN  IF msg_num.err # E_NONE THEN msg_num
        ELSE IF known = {} THEN DecErr(E_UNKNOWNPACKET, s)
        ELSE IF r.err # E_NONE THEN r
        ELSE DecOk(EnumVal(ty.tag, r.val), r.s)

\* sshwire::write_ssh: the bytes of the packet, or the error and no bytes
write_ssh(p, ctx) ==
    LET r == Packet_enc(p, <<>>, ctx)
    IN  IF r.err # E_NONE THEN [err |-> r.err, buf |-> <<>>]
        ELSE [err |-> E_NONE, buf |-> r.s]

\* sshwire::packet_from_bytes: the packet the bytes decode to
packet_from_bytes(b, ctx) == Packet_dec(b, ctx)

\* structural equality of two values of type ty
RECURSIVE SameVal(_, _, _)
SameVal(ty, a, b) ==
    CASE ty.k \in {"u32", "bool", "string"} -> a = b
      [] ty.k = "Blob" -> SameVal(ty.of, a, b)
      [] ty.k = "Option" ->
            /\ Len(a) = Len(b)
            /\ a # NoVal => SameVal(ty.of, a[1], b[1])
      [] ty.k \in {"struct", "MethodPubKey"} ->
            \A i \in 1..Len(ty.fields) :
                SameVal(ty.fields[i].ty, a[ty.fields[i].name], b[ty.fields[i].name])
      [] ty.k \in {"enum", "Userauth60"} ->
            /\ a.tag = b.tag
            /\ IF a.tag = "Unknown" \/ VariantOf(ty, a.tag).unit THEN a.val = b.val
               ELSE SameVal(VariantOf(ty, a.tag).ty, a.val, b.val)
SamePacket(p, q) ==
    p.tag = q.tag /\ SameVal(MessageOf(p.tag).ty, p.val, q.val)

(***************************************************************************)
(* Values of the harness variables while another harness runs              *)
(***************************************************************************)
NoRes == [op |-> "none", err |-> E_NONE, n |-> 0, total |-> U32Zero]

ParkedNeg ==
    [is_client |-> FALSE, p |-> KexInitPkt(0, <<>>, <<>>, <<>>, <<>>, <<>>, <<>>, <<>>, <<>>, FALSE),
     done |-> TRUE, out |-> NegErr(E_NONE)]

ParkedRt ==
    [phase |-> "off", rounds |-> 0, plen |-> 0, orig |-> <<>>, written |-> 0, res |-> NoRes,
     n_enc |-> U32Zero, n_dec |-> U32Zero, misuse |-> FALSE, nrekey |-> 0,
     arg |-> Keys_new_cleartext, flipped |-> 0,
     forge |-> [on |-> FALSE, pad |-> 0, auth |-> TRUE]]

NoDerived == [done |-> FALSE, err |-> E_NONE, keys |-> Keys_new_cleartext]

ParkedDv ==
    [phase |-> "off", k |-> <<>>, h |-> <<>>, sess_id |-> <<>>, c2s |-> "", s2c |-> "",
     cli |-> NoDerived, srv |-> NoDerived]

Roles == {"cli", "srv"}
Peer(r) == IF r = "cli" THEN "srv" ELSE "cli"
VERSION_CLI == "SSH-2.0-client"
VERSION_SRV == "SSH-2.0-server"
OurVersion(r) == IF r = "cli" THEN VERSION_CLI ELSE VERSION_SRV

NoLast == [r |-> "", op |-> "none", err |-> E_NONE]

ParkedKx ==
    [mode |-> "off",
     eng |-> [r \in Roles |->
                NewEngine(r = "cli", OurVersion(r), <<OurVersion(Peer(r))>>)],
     wire |-> [r \in Roles |-> <<>>],
     dead |-> [r \in Roles |-> FALSE],
     hlog |-> [r \in Roles |-> <<>>],
     ndisc |-> [r \in Roles |-> 0],
     last |-> NoLast, nops |-> 0]

\* the padding harness: a cipher, a payload length, the padding computed
ParkedPd == [phase |-> "off", kind |-> "", plen |-> 0, pad |-> 0]

\* the behaviour's answers: username, next_authkey, auth_password, agent_sign
UsernameOk == [err |-> E_NONE, v |-> "matt"]
UsernameAnswers == {UsernameOk, [err |-> E_BEHAVIOUR, v |-> ""]}
AuthKeys == {[id |-> 1, agent |-> FALSE], [id |-> 2, agent |-> TRUE]}
AuthkeyUnasked == [err |-> "unasked", some |-> FALSE, key |-> NoKey]
AuthkeyAnswers ==
    {[err |-> E_NONE, some |-> TRUE, key |-> k] : k \in AuthKeys}
    \cup {[err |-> E_NONE, some |-> FALSE, key |-> NoKey],
          [err |-> E_BEHAVIOUR, some |-> FALSE, key |-> NoKey]}
PasswordUnasked == [err |-> "unasked", r |-> FALSE, pw |-> ""]
PasswordAnswers ==
    {[err |-> E_NONE, r |-> TRUE, pw |-> "hunter2"], [err |-> E_NONE, r |-> FALSE, pw |-> ""],
     [err |-> E_BEHAVIOUR, r |-> FALSE, pw |-> ""]}
SignAnswers == {E_NONE, E_BEHAVIOUR}
NoAnswers ==
    [username |-> UsernameOk, authkey |-> AuthkeyUnasked, password |-> PasswordUnasked,
     sign_err |-> E_NONE]

No60 == [ty |-> "", algo |-> "", key |-> 0]
NoAuthLast ==
    [op |-> "none", err |-> E_NONE, pre |-> CliAuth_new, sent0 |-> 0, methods |-> <<>>,
     b |-> NoAnswers, u60 |-> No60, calls |-> NoCalls]

\* the authentication harness: the CliAuth, the sender, the parse context,
\* the last handler run, and what the behaviour was asked so far
AuthStart ==
    [mode |-> "on", a |-> CliAuth_new, s |-> [sent |-> <<>>, room |-> 0], ctx |-> CTX_NONE,
     nops |-> 0, dead |-> FALSE, last |-> NoAuthLast,
     n_username |-> 0, key_none |-> FALSE, key_again |-> FALSE, prog_ok |-> FALSE,
     pw_none |-> FALSE, pw_again |-> FALSE]
ParkedAu == [AuthStart EXCEPT !.mode = "off"]

\* the codec harness: a packet, a context, the bytes written, what they
\* decode to, what encoding that again gives
NoWrite == [err |-> E_NONE, buf |-> <<>>]
ParkedWr ==
    [phase |-> "off", p |-> NoVal, ctx |-> ParseContext_new, w |-> NoWrite,
     renamed |-> "", d |-> DecOk(NoVal, <<>>), w2 |-> NoWrite]

\* the runner harness
ParkedRn == [mode |-> "off"]

NegParked == neg = ParkedNeg
EncParked == ks = KeyState_new_cleartext /\ buf = <<>> /\ rt = ParkedRt
DerParked == dv = ParkedDv
KexParked == kx = ParkedKx
AuthParked == au = ParkedAu
PadParked == pd = ParkedPd
WireParked == wr = ParkedWr
RunParked == rn = ParkedRn

BesidesNegParked ==
    EncParked /\ DerParked /\ KexParked /\ AuthParked /\ PadParked /\ WireParked /\ RunParked
BesidesEncParked ==
    NegParked /\ DerParked /\ KexParked /\ AuthParked /\ PadParked /\ WireParked /\ RunParked
BesidesDerParked ==
    NegParked /\ EncParked /\ KexParked /\ AuthParked /\ PadParked /\ WireParked /\ RunParked
BesidesKexParked ==
    NegParked /\ EncParked /\ DerParked /\ AuthParked /\ PadParked /\ WireParked /\ RunParked
BesidesAuthParked ==
    NegParked /\ EncParked /\ DerParked /\ KexParked /\ PadParked /\ WireParked /\ RunParked
BesidesPadParked ==
    NegParked /\ EncParked /\ DerParked /\ KexParked /\ AuthParked /\ WireParked /\ RunParked
BesidesWireParked ==
    NegParked /\ EncParked /\ DerParked /\ KexParked /\ AuthParked /\ PadParked /\ RunParked
BesidesRunParked ==
    NegParked /\ EncParked /\ DerParked /\ KexParked /\ AuthParked /\ PadParked /\ WireParked

(***************************************************************************)
(* The packet harness, after tests::do_roundtrips: a KeyState encrypts a   *)
(* packet into a buffer and decrypts it back.  Init is new_cleartext, or   *)
(* the same after 2^32-2 packets each way (pre-loaded counters).           *)
(***************************************************************************)
\* largest payload length tried
MaxPayload == 39
\* packets encrypted in one run
MaxRounds == 2
\* rekeys in one run
MaxRekeys == 2
\* room the test leaves beyond the payload length (encrypt.rs:630)
TEST_ROOM == 60

\* a count of packets, not wrapped
CountInc(c) == IF c.lo = 65535 THEN [hi |-> c.hi + 1, lo |-> 0] ELSE [c EXCEPT !.lo = @ + 1]
\* a count modulo 2^32
Mod32(c) == U32(c.hi % 65536, c.lo)

PreloadedSeqs == {U32Zero, U32(65535, 65534)}
GarbageBytes == {0, 255}

\* the keys of tests::algo_roundtrips: derived as server, the decrypting
\* half taken from the client's derivation of the same exchange
TestAlgos(c, i, is_client) ==
    [NoAlgos EXCEPT !.cipher_enc = c, !.cipher_dec = c, !.integ_enc = i,
                    !.integ_dec = i, !.is_client = is_client]

TestKeys(c, i) ==
    LET a == Keys_new_from(<<"hello">>, <<"some exchange hash">>, <<"some sessid">>,
                           TestAlgos(c, i, FALSE)).keys
        b == Keys_new_from(<<"hello">>, <<"some exchange hash">>, <<"some sessid">>,
                           TestAlgos(c, i, TRUE)).keys
    IN  [a EXCEPT !.dec = b.dec, !.integ_dec = b.integ_dec]

TestBundles ==
    {TestKeys(CIPHER_AES256CTR, INTEG_HMACSHA256), TestKeys(CIPHER_CHAPOLY, INTEG_CHAPOLY)}

EncInit ==
    /\ BesidesEncParked
    /\ \E s0 \in PreloadedSeqs :
        /\ ks = [KeyState_new_cleartext EXCEPT !.seq_encrypt = s0, !.seq_decrypt = s0]
        /\ rt = [ParkedRt EXCEPT !.phase = "idle", !.n_enc = s0, !.n_dec = s0]
    /\ buf = <<>>

\* keys.encrypt(i, v) on a buffer v of `room` bytes holding 0, 1, 2, ...
Encrypt(i, room) ==
    /\ rt.phase = "idle"
    /\ rt.rounds < MaxRounds
    /\ \E rnd \in Randoms :
        \E v \in {[j \in 1..room |-> Cell((j - 1) % 256)]} :
        \E r \in {KeyState_encrypt(ks, i, v, rnd)} :
            /\ ks' = r.ks
            /\ buf' = IF r.err = E_NONE THEN SubSeq(r.buf, 1, r.n) ELSE r.buf
            /\ rt' = [rt EXCEPT
                        !.phase = "sealed", !.rounds = @ + 1, !.plen = i,
                        !.written = r.n,
                        !.orig = IF room >= SSH_PAYLOAD_START + i
                                 THEN SubSeq(v, SSH_PAYLOAD_START + 1, SSH_PAYLOAD_START + i)
                                 ELSE <<>>,
                        !.res = [op |-> "encrypt", err |-> r.err, n |-> r.n, total |-> U32Zero],
                        !.n_enc = IF r.err = E_NONE THEN CountInc(@) ELSE @,
                        !.misuse = @ \/ room # i + TEST_ROOM]
    /\ UNCHANGED besides_enc

\* keys.decrypt_first_block(v)
DecryptFirstBlock ==
    /\ rt.phase = "sealed"
    /\ \E g \in GarbageBytes :
        \E r \in {KeyState_decrypt_first_block(ks, buf, g)} :
            /\ ks' = r.ks
            /\ buf' = r.buf
            /\ rt' = [rt EXCEPT
                        !.phase = "lenread",
                        !.res = [op |-> "decrypt_first_block", err |-> r.err, n |-> 0,
                                 total |-> r.total]]
    /\ UNCHANGED besides_enc

\* keys.decrypt(v)
Decrypt ==
    /\ rt.phase \in {"sealed", "lenread"}
    /\ \E g \in GarbageBytes :
        \E r \in {KeyState_decrypt(ks, buf, g)} :
            /\ ks' = r.ks
            /\ buf' = r.buf
            /\ rt' = [rt EXCEPT
                        !.phase = "opened",
                        !.res = [op |-> "decrypt", err |-> r.err, n |-> r.n, total |-> U32Zero],
                        !.n_dec = IF r.err = E_NONE THEN CountInc(@) ELSE @,
                        !.misuse = @ \/ rt.phase = "sealed"]
    /\ UNCHANGED besides_enc

\* the end of one iteration: the buffer goes out of scope
Drop ==
    /\ rt.phase = "opened"
    /\ buf' = <<>>
    /\ rt' = [rt EXCEPT !.phase = "idle", !.plen = 0, !.orig = <<>>, !.written = 0,
                        !.res = NoRes]
    /\ UNCHANGED <<ks, besides_enc>>

\* keys.rekey(newkeys)
Rekey(newkeys) ==
    /\ rt.phase = "idle"
    /\ rt.nrekey < MaxRekeys
    /\ ks' = KeyState_rekey(ks, newkeys)
    /\ rt' = [rt EXCEPT !.nrekey = @ + 1, !.arg = newkeys,
                        !.res = [NoRes EXCEPT !.op = "rekey"]]
    /\ UNCHANGED <<buf, besides_enc>>

EncNext ==
    \/ \E i \in 0..MaxPayload : \E room \in {i + TEST_ROOM, i} : Encrypt(i, room)
    \/ DecryptFirstBlock
    \/ Decrypt
    \/ Drop
    \/ \E k \in TestBundles : Rekey(k)

SpecEnc == EncInit /\ [][EncNext]_vars

(***************************************************************************)
(* Properties of the packet layer                                          *)
(***************************************************************************)
\* C8 as stated: the send sequence number is the number of whole packets
\* encrypted and the receive sequence number the number of whole packets
\* decrypted, modulo 2^32; a call that returns an error advances neither.
\* (n_enc and n_dec count the encrypt and decrypt calls that returned Ok.)
C8_AsClaimed ==
    rt.phase # "off" =>
        /\ ks.seq_encrypt = Mod32(rt.n_enc)
        /\ ks.seq_decrypt = Mod32(rt.n_dec)

\* what of a key bundle a rekey sets: the algorithms and the key material
\* (not the position a stream cipher has reached in its keystream)
KeyIdent(keys) ==
    [enc |-> [keys.enc EXCEPT !.pos = 0], dec |-> [keys.dec EXCEPT !.pos = 0],
     integ_enc |-> keys.integ_enc, integ_dec |-> keys.integ_dec]

\* C9: KeyState::rekey replaces the whole key bundle (both cipher keys and
\* both integrity keys) by the bundle it is given, in one step, and leaves
\* both sequence numbers as they are; no other operation changes an
\* algorithm or key of the bundle.
C9_RekeyWholesale ==
    [][ /\ rt'.nrekey # rt.nrekey =>
            /\ ks'.keys = rt'.arg
            /\ ks'.seq_encrypt = ks.seq_encrypt
            /\ ks'.seq_decrypt = ks.seq_decrypt
        /\ rt'.nrekey = rt.nrekey => KeyIdent(ks'.keys) = KeyIdent(ks.keys)
      ]_vars

\* a second rekey, after two packets went through and back
C9_Witness ==
    /\ rt.res.op = "rekey" /\ rt.nrekey = 2
    /\ ks.keys.enc.kind = CIPHER_CHAPOLY
    /\ ks.seq_encrypt = U32(0, 2) /\ ks.seq_decrypt = U32(0, 2)
    /\ rt.rounds = 2 /\ ~rt.misuse

\* C10: for every key state (cleartext, aes256-ctr with hmac-sha2-256,
\* chacha20-poly1305) and every payload length 0..MaxPayload, encrypting a
\* packet succeeds, decrypt_first_block on the output returns the number of
\* bytes written as the total length, and decrypt returns the payload
\* length with the payload bytes as they were.
C10_Roundtrip ==
    ~rt.misuse =>
        /\ rt.phase = "sealed" => (rt.res.err = E_NONE /\ Len(buf) = rt.written)
        /\ rt.phase = "lenread" =>
              (rt.res.err = E_NONE /\ rt.res.total = U32Of(rt.written))
        /\ rt.phase = "opened" =>
              /\ rt.res.err = E_NONE
              /\ rt.res.n = rt.plen
              /\ SubSeq(buf, SSH_PAYLOAD_START + 1, SSH_PAYLOAD_START + rt.plen) = rt.orig

\* the longest payload went through aes256-ctr with hmac-sha2-256 as the
\* second packet under those keys
C10_Witness ==
    /\ ~rt.misuse /\ rt.phase = "opened" /\ rt.res.err = E_NONE
    /\ rt.plen = MaxPayload /\ rt.rounds = 2
    /\ ks.keys.dec.kind = CIPHER_AES256CTR /\ ks.keys.dec.pos > rt.written
    /\ Len(rt.orig) = MaxPayload

(***************************************************************************)
(* The corruption harness, after tests::do_roundtrips with corrupt set:    *)
(* under negotiated keys one packet is encrypted, one byte of it is        *)
(* altered, and the packet is decrypted.                                   *)
(***************************************************************************)
\* largest payload length tried with an altered byte
MaxCorruptPayload == 12

CorruptInit ==
    /\ BesidesEncParked
    /\ \E s0 \in PreloadedSeqs : \E k \in TestBundles :
        /\ ks = [keys |-> k, seq_encrypt |-> s0, seq_decrypt |-> s0]
        /\ rt = [ParkedRt EXCEPT !.phase = "idle", !.n_enc = s0, !.n_dec = s0,
                                 !.rounds = MaxRounds - 1, !.nrekey = 1, !.arg = k]
    /\ buf = <<>>

\* v[j] ^= 4 on the encrypted packet (j counted from 1)
Corrupt(j) ==
    /\ rt.phase = "sealed" /\ rt.res.err = E_NONE /\ rt.flipped = 0
    /\ j <= Len(buf)
    /\ buf' = [buf EXCEPT ![j] = FlipCell(@)]
    /\ rt' = [rt EXCEPT !.flipped = j]
    /\ UNCHANGED <<ks, besides_enc>>

CorruptNext ==
    \/ \E i \in 0..MaxCorruptPayload : Encrypt(i, i + TEST_ROOM)
    \/ \E j \in 1..(MaxCorruptPayload + TEST_ROOM) : Corrupt(j)
    \/ DecryptFirstBlock
    \/ Decrypt

SpecCorrupt == CorruptInit /\ [][CorruptNext]_vars

\* C12: with negotiated keys (aes256-ctr with hmac-sha2-256, or
\* chacha20-poly1305), when any one byte of an encrypted packet, of its
\* ciphertext or of its MAC or tag, was altered, decrypt fails with
\* BadDecrypt and returns no payload length.
C12_CorruptRejected ==
    (rt.phase = "opened" /\ rt.flipped # 0 /\ ~rt.misuse) =>
        (rt.res.err = E_BADDECRYPT /\ rt.res.n = 0)

\* the last byte of the MAC of the longest packet was altered, under
\* aes256-ctr with hmac-sha2-256
C12_Witness ==
    /\ rt.phase = "opened" /\ ~rt.misuse /\ rt.res.err = E_BADDECRYPT
    /\ rt.plen = MaxCorruptPayload
    /\ rt.flipped = rt.written /\ rt.written = Len(buf)
    /\ ks.keys.integ_dec.kind = INTEG_HMACSHA256

(***************************************************************************)
(* The padding harness: Keys::calc_encrypt_pad applied to every payload    *)
(* length up to MaxPadPayload under each of the three ciphers.             *)
(***************************************************************************)
MaxPadPayload == 300

PadKeys == {Keys_new_cleartext} \cup TestBundles
PadKeysOf(kind) == CHOOSE k \in PadKeys : k.enc.kind = kind

PadInit ==
    /\ BesidesPadParked
    /\ \E k \in PadKeys : \E p \in 0..MaxPadPayload :
        pd = [phase |-> "in", kind |-> k.enc.kind, plen |-> p, pad |-> 0]

CalcPad ==
    /\ pd.phase = "in"
    /\ pd' = [pd EXCEPT !.phase = "out",
                        !.pad = calc_encrypt_pad(PadKeysOf(pd.kind), pd.plen)]
    /\ UNCHANGED besides_pad

PadNext == CalcPad

SpecPad == PadInit /\ [][PadNext]_vars

\* the block size of each cipher, as the protocol gives it
BlockSizeOf(kind) == IF kind = CIPHER_AES256CTR THEN 16 ELSE 8

\* C11: for every payload length P and each cipher (none, aes256-ctr,
\* chacha20-poly1305) calc_encrypt_pad returns pad with 4 <= pad <= 255,
\* 4 + 1 + P + pad >= 16, and 1 + P + pad (plus the 4-byte length prefix
\* unless the cipher is AEAD) a multiple of the block size (16 for
\* aes256-ctr, 8 for the others).
C11_PadContract ==
    pd.phase = "out" =>
        /\ 4 <= pd.pad /\ pd.pad <= 255
        /\ 4 + 1 + pd.plen + pd.pad >= 16
        /\ (1 + pd.plen + pd.pad + (IF pd.kind = CIPHER_CHAPOLY THEN 0 ELSE 4))
              % BlockSizeOf(pd.kind) = 0

\* an empty payload under chacha20-poly1305: one block of padding would
\* leave the packet at 12 bytes, so a second block is added
C11_Witness ==
    /\ pd.phase = "out" /\ pd.kind = CIPHER_CHAPOLY /\ pd.plen = 0 /\ pd.pad = 15

(***************************************************************************)
(* The malformed-packet harness: the peer, holding the keys, sends a       *)
(* packet of any size and any padding length byte, with or without a       *)
(* genuine MAC or tag, and Keys::decrypt is called on it.                  *)
(***************************************************************************)
\* largest size without MAC of a packet the peer builds
MaxForge == 40
\* the padding length bytes the peer writes
ForgePads == 0..(SSH_MIN_PADLEN + 1)

\* a packet before encryption: the length field, the padding length byte,
\* zeroes
ForgedPlain(n, p) ==
    [i \in 1..n |->
        IF i <= SSH_LENGTH_SIZE
        THEN Cell(BeBytes(IF n > SSH_LENGTH_SIZE THEN n - SSH_LENGTH_SIZE ELSE 0)[i])
        ELSE IF i = SSH_LENGTH_SIZE + 1 THEN Cell(p) ELSE Cell(0)]

\* what the peer's cipher and MAC make of `plain` for the receiving keys
\* `keys`; when not `authentic`, the first byte of the MAC or tag is wrong
PeerSeal(keys, plain, seq, authentic) ==
    LET id == CipherId(keys.dec)
        n == Len(plain)
        body == IF keys.dec.kind = CIPHER_CHAPOLY
                THEN ApplyKeystream(
                         ApplyKeystream(plain, 1, SSH_LENGTH_SIZE, id, "len", seq, 0),
                         SSH_LENGTH_SIZE + 1, n, id, "main", seq, 0)
                ELSE IF keys.dec.kind = CIPHER_AES256CTR
                THEN ApplyKeystream(plain, 1, n, id, "ctr", U32Zero, keys.dec.pos)
                ELSE plain
        tag == IF keys.integ_dec.kind = INTEG_CHAPOLY
               THEN DigestCells("poly1305", id, seq, body, CHAPOLY_TAG_LEN)
               ELSE IF keys.integ_dec.kind = INTEG_HMACSHA256
               THEN DigestCells("hmac-sha256", keys.integ_dec.key, seq, plain,
                                SHA256_OUTPUT_SIZE)
               ELSE <<>>
    IN  body \o (IF authentic \/ tag = <<>> THEN tag ELSE [tag EXCEPT ![1] = FlipCell(@)])

ForgeInit ==
    /\ BesidesEncParked
    /\ \E s0 \in PreloadedSeqs : \E k \in PadKeys :
        /\ ks = [keys |-> k, seq_encrypt |-> s0, seq_decrypt |-> s0]
        /\ rt = [ParkedRt EXCEPT !.phase = "idle", !.n_enc = s0, !.n_dec = s0, !.arg = k]
    /\ buf = <<>>

\* a packet of n bytes before the MAC arrives from the peer
Forge(n, p, authentic) ==
    /\ rt.phase = "idle" /\ ~rt.forge.on
    /\ authentic \/ size_out(ks.keys.integ_dec) > 0
    /\ \E v \in {PeerSeal(ks.keys, ForgedPlain(n, p), ks.seq_decrypt, authentic)} :
        /\ buf' = v
        /\ rt' = [rt EXCEPT !.phase = "sealed", !.written = Len(v),
                            !.forge = [on |-> TRUE, pad |-> p, auth |-> authentic]]
    /\ UNCHANGED <<ks, besides_enc>>

ForgeNext ==
    \/ \E n \in 0..MaxForge : \E p \in ForgePads : \E a \in BOOLEAN : Forge(n, p, a)
    \/ DecryptFirstBlock
    \/ Decrypt

SpecForge == ForgeInit /\ [][ForgeNext]_vars

\* the packet decrypt was given: its size without MAC, its encrypted length
ForgedSize == Len(buf) - size_out(ks.keys.integ_dec)
ForgedEncLen ==
    ForgedSize - (IF ks.keys.dec.kind = CIPHER_CHAPOLY THEN SSH_LENGTH_SIZE ELSE 0)
ForgedBadSize ==
    \/ ForgedSize < 16
    \/ ForgedEncLen % BlockSizeOf(ks.keys.dec.kind) # 0
ForgedRejected == rt.res.err = E_SSHPROTO /\ rt.res.n = 0

\* C13 as stated: Keys::decrypt rejects with a protocol error, returning no
\* payload length, every packet whose size without MAC is below 16 bytes,
\* whose encrypted length is not a multiple of the cipher block size, or
\* whose padding length byte is below 4.
C13_AsClaimed ==
    (rt.phase = "opened" /\ rt.forge.on) =>
        /\ ForgedBadSize => ForgedRejected
        /\ (~ForgedBadSize /\ ~rt.misuse /\ rt.forge.pad < 4) => ForgedRejected

\* C13, amended: Keys::decrypt rejects with a protocol error, returning no
\* payload length, every packet whose size without MAC is below 16 bytes or
\* whose encrypted length is not a multiple of the cipher block size, and
\* every packet of a valid size whose MAC or tag verifies (or that has
\* none) and whose padding length byte is below 4; a packet of a valid
\* size whose MAC or tag does not verify is rejected with BadDecrypt
\* whatever its padding length byte.
C13_Rejects ==
    (rt.phase = "opened" /\ rt.forge.on) =>
        /\ ForgedBadSize => ForgedRejected
        /\ (~ForgedBadSize /\ ~rt.misuse /\ rt.forge.auth /\ rt.forge.pad < 4)
              => ForgedRejected
        /\ (~ForgedBadSize /\ ~rt.forge.auth)
              => (rt.res.err = E_BADDECRYPT /\ rt.res.n = 0)

\* an authentic aes256-ctr packet of 32 bytes with padding length 3 was
\* rejected as a protocol error
C13_Witness ==
    /\ rt.phase = "opened" /\ rt.forge.on /\ ~rt.misuse /\ rt.forge.auth
    /\ ks.keys.dec.kind = CIPHER_AES256CTR
    /\ ForgedSize = 32 /\ rt.forge.pad = 3
    /\ ForgedRejected

(***************************************************************************)
(* The client authentication harness: the connection runs the handlers of  *)
(* CliAuth on driver ticks and on the server's UserauthFailure, message 60 *)
(* and UserauthSuccess; SpecAuthApi also calls auth60 with any Userauth60. *)
(***************************************************************************)
\* handler runs in one behaviour
MaxAuthOps == 4
\* the session id of the connection
AuthSessId == SomeSessId(<<"H">>)
\* the method lists of a UserauthFailure
MethodLists ==
    {<<>>, <<SSH_AUTHMETHOD_PUBLICKEY>>, <<SSH_AUTHMETHOD_PASSWORD>>,
     <<SSH_AUTHMETHOD_PUBLICKEY, SSH_AUTHMETHOD_PASSWORD>>,
     <<SSH_AUTHMETHOD_PASSWORD, SSH_AUTHMETHOD_PUBLICKEY>>}
\* the keys a message 60 may name
EchoedKeys == {1, 2, 3}

AuthInit == BesidesAuthParked /\ au = AuthStart

\* the answers the handler asked for
AnswersUsed(b, calls) ==
    [username |-> IF calls.username = 1 THEN b.username ELSE UsernameOk,
     authkey |-> IF calls.authkey = 1 THEN b.authkey ELSE AuthkeyUnasked,
     password |-> IF calls.password = 1 THEN b.password ELSE PasswordUnasked,
     sign_err |-> IF calls.sign = 1 THEN b.sign_err ELSE E_NONE]

\* the harness after a handler returned r
AuthDone(op, r, methods, b, u60) ==
    au' = [au EXCEPT
             !.a = r.a, !.s = r.s, !.ctx = r.ctx, !.nops = @ + 1,
             !.dead = r.err = E_PANIC,
             !.last = [op |-> op, err |-> r.err, pre |-> au.a, sent0 |-> Len(au.s.sent),
                       methods |-> methods, b |-> AnswersUsed(b, r.calls), u60 |-> u60,
                       calls |-> r.calls],
             !.n_username = @ + r.calls.username,
             !.key_again = @ \/ (au.key_none /\ r.calls.authkey = 1),
             !.key_none = @ \/ (r.calls.authkey = 1 /\ b.authkey.err = E_NONE
                                                     /\ ~b.authkey.some),
             !.prog_ok = @ \/ (op = "progress" /\ r.err = E_NONE),
             !.pw_again = @ \/ (au.pw_none /\ r.calls.password = 1),
             !.pw_none = @ \/ (r.calls.password = 1 /\ b.password.err = E_NONE
                                                     /\ ~b.password.r)]

AuthLive == au.mode = "on" /\ ~au.dead /\ au.nops < MaxAuthOps
Sender(room) == [au.s EXCEPT !.room = room]

\* a driver tick: CliAuth::progress
AuthProgress ==
    /\ AuthLive
    /\ \E u \in UsernameAnswers : \E room \in 0..2 :
        \E b \in {[NoAnswers EXCEPT !.username = u]} :
        \E r \in {CliAuth_progress(au.a, Sender(room), au.ctx, b)} :
            AuthDone("progress", r, <<>>, b, No60)
    /\ UNCHANGED besides_auth

\* a UserauthFailure received: CliAuth::failure
AuthFailure ==
    /\ AuthLive
    /\ \E methods \in MethodLists : \E k \in AuthkeyAnswers : \E pw \in PasswordAnswers :
        \E room \in 0..1 :
        \E b \in {[NoAnswers EXCEPT !.authkey = k, !.password = pw]} :
        \E r \in {CliAuth_failure(au.a, [methods |-> methods, partial |-> FALSE], au.ctx,
                                   Sender(room), b)} :
            AuthDone("failure", r, methods, b, No60)
    /\ UNCHANGED besides_auth

\* a message 60 received: decoded by the parse context, then CliAuth::auth60
AuthRecv60 ==
    /\ AuthLive
    /\ \E key \in EchoedKeys : \E sg \in SignAnswers : \E room \in 0..1 :
        \E b \in {[NoAnswers EXCEPT !.sign_err = sg]} :
        \E d \in {Userauth60_dec(au.ctx, SSH_NAME_ED25519, key)} :
            IF d.err # E_NONE
            THEN AuthDone("recv60", AuthRet(d.err, au.a, au.s, au.ctx, NoCalls), <<>>, b, No60)
            ELSE \E r \in {CliAuth_auth60(au.a, d.v, AuthSessId, au.ctx, Sender(room), b)} :
                    AuthDone("recv60", r, <<>>, b, d.v)
    /\ UNCHANGED besides_auth

\* a UserauthSuccess received: Client::auth_success
AuthSuccess ==
    /\ AuthLive
    /\ \E room \in 0..1 :
        \E r \in {Client_auth_success(au.a, au.ctx, Sender(room))} :
            AuthDone("success", r, <<>>, NoAnswers, No60)
    /\ UNCHANGED besides_auth

\* CliAuth::auth60 called with any Userauth60
AuthApi60 ==
    /\ AuthLive
    /\ \E u60 \in {Userauth60_PkOk(SSH_NAME_ED25519, k) : k \in EchoedKeys}
                  \cup {Userauth60_PwChangeReq("", 0)} :
        \E sg \in SignAnswers : \E room \in 0..1 :
        \E b \in {[NoAnswers EXCEPT !.sign_err = sg]} :
        \E r \in {CliAuth_auth60(au.a, u60, AuthSessId, au.ctx, Sender(room), b)} :
            AuthDone("auth60", r, <<>>, b, u60)
    /\ UNCHANGED besides_auth

AuthNext == AuthProgress \/ AuthFailure \/ AuthRecv60 \/ AuthSuccess
AuthApiNext == AuthNext \/ AuthApi60

SpecAuth == AuthInit /\ [][AuthNext]_vars
SpecAuthApi == AuthInit /\ [][AuthApiNext]_vars

\* the packets the last handler sent
LastSent == SubSeq(au.s.sent, au.last.sent0 + 1, Len(au.s.sent))
LastWasFailure == au.mode = "on" /\ au.last.op = "failure"
Last60 == au.mode = "on" /\ au.last.op \in {"recv60", "auth60"}
OfferedPubkey == has_algo(au.last.methods, SSH_AUTHMETHOD_PUBLICKEY)
OfferedPassword == has_algo(au.last.methods, SSH_AUTHMETHOD_PASSWORD)
KeyReturned == au.last.b.authkey.err = E_NONE /\ au.last.b.authkey.some
PasswordReturned == au.last.b.password.err = E_NONE /\ au.last.b.password.r
NoneProbe(username) ==
    PktUserauthRequest(username, SSH_SERVICE_CONNECTION, SSH_NAME_NONE, 0, NoSig, "")
PubkeyProbe(username, key) ==
    PktUserauthRequest(username, SSH_SERVICE_CONNECTION, SSH_AUTHMETHOD_PUBLICKEY,
                       key.id, NoSig, "")
PasswordRequest(username, pw) ==
    PktUserauthRequest(username, SSH_SERVICE_CONNECTION, SSH_AUTHMETHOD_PASSWORD,
                       0, NoSig, pw)
ServiceRequestsSent ==
    {i \in 1..Len(au.s.sent) : au.s.sent[i] = PktServiceRequest(SSH_SERVICE_USERAUTH)}
NoneProbesSent ==
    {i \in 1..Len(au.s.sent) :
        au.s.sent[i].ty = "UserauthRequest" /\ au.s.sent[i].method = SSH_NAME_NONE}

\* C14 as stated: after any number of CliAuth::progress calls of which at
\* least one returned Ok, the username has been fetched exactly once,
\* exactly one ServiceRequest("ssh-userauth") followed by exactly one
\* UserauthRequest with method none has been sent, and the state has left
\* Unstarted; a progress call in a state other than Unstarted sends nothing.
C14_AsClaimed ==
    au.mode = "on" =>
        /\ au.prog_ok =>
              /\ au.n_username = 1
              /\ au.a.state.tag # "Unstarted"
              /\ \E i \in ServiceRequestsSent : \E j \in NoneProbesSent :
                    /\ i < j
                    /\ ServiceRequestsSent = {i} /\ NoneProbesSent = {j}
                    /\ au.s.sent[j] = NoneProbe(au.a.username)
        /\ (au.last.op = "progress" /\ au.last.pre.state.tag # "Unstarted")
              => LastSent = <<>>

\* what holds of CliAuth::progress: the username is fetched at most once,
\* only the first call sends, and a first call that returns Ok has sent the
\* two packets in order
C14_FirstCallOnly ==
    au.mode = "on" =>
        /\ au.n_username <= 1
        /\ (au.last.op = "progress" /\ au.last.pre.state.tag # "Unstarted")
              => (LastSent = <<>> /\ au.last.err = E_NONE)
        /\ (au.last.op = "progress" /\ au.last.pre.state.tag = "Unstarted"
                                    /\ au.last.err = E_NONE)
              => LastSent = <<PktServiceRequest(SSH_SERVICE_USERAUTH),
                              NoneProbe(au.a.username)>>
        /\ au.last.op = "progress" => au.a.state.tag # "Unstarted"

\* C15: on UserauthFailure the client tries public key before password: if
\* publickey is offered, keys are not exhausted and the behaviour returns a
\* key, the state becomes Request{PubKey} with that key and no password is
\* asked for; the state becomes Request{Password} only otherwise, when
\* password is offered, not declined, and the behaviour returns one.
\* Whenever failure() returns Ok, the state is Request and exactly one
\* UserauthRequest matching it was sent: a public key probe without
\* signature, or a password request.
C15_PubkeyFirst ==
    LastWasFailure =>
        /\ (OfferedPubkey /\ au.last.pre.try_pubkey)
              => /\ au.last.calls.authkey = 1
                 /\ KeyReturned =>
                       /\ au.a.state = AuthState_Request(Req_PubKey(au.last.b.authkey.key))
                       /\ au.last.calls.password = 0
        /\ (au.a.state.tag = "Request" /\ au.a.state.last_req.ty = "Password")
              => /\ ~(OfferedPubkey /\ au.last.pre.try_pubkey /\ KeyReturned)
                 /\ OfferedPassword /\ au.last.pre.try_password /\ PasswordReturned
                 /\ au.a.state.last_req.pw = au.last.b.password.pw
        /\ au.last.err = E_NONE
              => /\ au.a.state.tag = "Request"
                 /\ LastSent =
                      <<IF au.a.state.last_req.ty = "PubKey"
                        THEN PubkeyProbe(au.a.username, au.a.state.last_req.key)
                        ELSE PasswordRequest(au.a.username, au.a.state.last_req.pw)>>
                 /\ au.ctx = (IF au.a.state.last_req.ty = "PubKey" THEN CTX_PUBKEY
                              ELSE CTX_PASSWORD)

\* both methods were offered in the order password, publickey, the
\* behaviour had a key and a password, and the public key probe went out
C15_Witness ==
    /\ LastWasFailure /\ au.last.err = E_NONE
    /\ au.last.methods = <<SSH_AUTHMETHOD_PASSWORD, SSH_AUTHMETHOD_PUBLICKEY>>
    /\ au.a.state.tag = "Request" /\ au.a.state.last_req.ty = "PubKey"
    /\ au.a.try_password /\ au.a.username = "matt"
    /\ Len(LastSent) = 1

\* a UserauthFailure leaves no usable method
NoUsableMethod ==
    /\ \/ ~OfferedPubkey
       \/ ~au.last.pre.try_pubkey
       \/ (au.last.calls.authkey = 1 /\ ~KeyReturned)
    /\ \/ ~OfferedPassword
       \/ ~au.last.pre.try_password
       \/ (au.last.calls.password = 1 /\ au.last.b.password.err = E_NONE
                                       /\ ~au.last.b.password.r)

\* C16: when a UserauthFailure leaves no usable method (publickey not
\* offered or keys exhausted, and password not offered or declined),
\* failure() fails with the error "No authentication methods left", sends
\* no packet, and the state is not Request.
C16_NoMethodsLeft ==
    (LastWasFailure /\ NoUsableMethod) =>
        /\ au.last.err = E_NO_METHODS
        /\ LastSent = <<>>
        /\ au.a.state.tag # "Request"

\* both methods were offered; the behaviour had no key left and declined
\* the password
C16_Witness ==
    /\ LastWasFailure /\ NoUsableMethod
    /\ OfferedPubkey /\ OfferedPassword
    /\ au.last.calls.authkey = 1 /\ au.last.calls.password = 1
    /\ au.last.err = E_NO_METHODS
    /\ ~au.a.try_pubkey /\ ~au.a.try_password

\* C33: once auth_password has answered Ok(false) it is not called again,
\* whatever UserauthFailure messages follow; after the server has rejected
\* a password that was sent, a UserauthFailure that offers password and
\* does not lead to a public key request asks for a password again.
C33_PasswordDeclinedOnce ==
    au.mode = "on" =>
        /\ ~au.pw_again
        /\ au.pw_none => ~au.a.try_password
        /\ (/\ LastWasFailure
            /\ au.last.pre.state.tag = "Request"
            /\ au.last.pre.state.last_req.ty = "Password"
            /\ OfferedPassword
            /\ ~(OfferedPubkey /\ au.last.pre.try_pubkey /\ KeyReturned))
              => au.last.calls.password = 1

\* the password was declined, and a later UserauthFailure that offers only
\* password did not ask for it
C33_Witness ==
    /\ LastWasFailure /\ au.pw_none /\ ~au.last.pre.try_password
    /\ OfferedPassword /\ ~OfferedPubkey
    /\ au.last.calls.password = 0 /\ au.last.err = E_NO_METHODS

\* a password was sent and rejected, and the behaviour was asked again
C33_AskedAgainWitness ==
    /\ LastWasFailure /\ au.last.calls.password = 1
    /\ au.last.pre.state.tag = "Request"
    /\ au.last.pre.state.last_req.ty = "Password"

\* the cli_auth_type that fits the auth state
CtxOfState(st) ==
    IF st.tag = "Request" /\ st.last_req.ty = "PubKey" THEN CTX_PUBKEY
    ELSE IF st.tag = "Request" /\ st.last_req.ty = "Password" THEN CTX_PASSWORD
    ELSE CTX_NONE

C37_PasswordWitness ==
    /\ LastWasFailure /\ au.last.err = E_NONE
    /\ au.a.state.tag = "Request" /\ au.ctx = CTX_PASSWORD
\* the service request sent after a UserauthSuccess
C37_SuccessWitness ==
    /\ au.mode = "on" /\ au.last.op = "success" /\ au.last.err = E_NONE
    /\ au.last.pre.state.tag = "Request" /\ au.ctx = CTX_NONE

\* C17: once the behaviour's next_authkey has returned None, it is never
\* called again, for any sequence of later UserauthFailure messages.
C17_NoKeyAfterNone == au.mode = "on" => ~au.key_again

\* next_authkey had returned None, and a later UserauthFailure offering
\* publickey was handled without asking for a key
C17_Witness ==
    /\ LastWasFailure /\ au.key_none /\ OfferedPubkey
    /\ ~au.last.pre.try_pubkey
    /\ au.last.calls.authkey = 0

\* the state expects a PkOk for the key the message names
PkOkExpected ==
    /\ au.last.pre.state.tag = "Request"
    /\ au.last.pre.state.last_req.ty = "PubKey"
    /\ SignKey_pubkey(au.last.pre.state.last_req.key) = au.last.u60.key

\* the request a PkOk is answered with: the probe, carrying the signature
\* of the key over the session id and the probe
SignedRequest(username, key) ==
    [PubkeyProbe(username, key) EXCEPT
        !.sig = SomeSig(Sign(key, AuthSigMsg_new(PubkeyProbe(username, key), AuthSessId)))]

\* C18: a Userauth60 PkOk is accepted only when the client state is
\* Request{PubKey} and the echoed key equals the key just probed; then
\* exactly one full UserauthRequest carrying a signature is sent.  In every
\* other state, or when the key differs, the client fails with a protocol
\* error and sends nothing.
C18_PkOk ==
    (Last60 /\ au.last.u60.ty = "PkOk") =>
        /\ au.last.err = E_NONE
              => /\ PkOkExpected
                 /\ LastSent = <<SignedRequest(au.a.username,
                                               au.last.pre.state.last_req.key)>>
        /\ ~PkOkExpected => (au.last.err = E_SSHPROTO /\ LastSent = <<>>)
        /\ au.a = au.last.pre

\* a PkOk for the agent-held key just probed was answered with a signed
\* request
C18_Witness ==
    /\ Last60 /\ au.last.u60.ty = "PkOk" /\ au.last.err = E_NONE
    /\ PkOkExpected /\ au.last.pre.state.last_req.key.agent
    /\ Len(LastSent) = 1 /\ LastSent[1].sig # NoSig

\* C19 as stated: when a received Userauth60 decodes as PwChangeReq (the
\* last request was a password), CliAuth::auth60 returns an error value to
\* its caller; the engine does not abort.
C19_AsClaimed ==
    (Last60 /\ au.last.u60.ty = "PwChangeReq") =>
        (au.last.err \notin {E_NONE, E_PANIC} /\ ~au.dead)

\* what holds: a message 60 decodes as PwChangeReq exactly when the last
\* request sent was a password request, and auth60 then panics
C19_PwChangePanics ==
    (au.mode = "on" /\ au.last.op = "recv60" /\ au.last.u60.ty = "PwChangeReq") =>
        /\ au.last.pre.state.tag = "Request"
        /\ au.last.pre.state.last_req.ty = "Password"
        /\ au.last.err = E_PANIC /\ au.dead

\* C20: a behaviour error during client authentication (next_authkey or
\* auth_password returning an error while handling UserauthFailure) steps
\* the state machine to the next available method: after an error of
\* next_authkey, password is tried when offered and not declined.
\* failure() does not fail while another offered method remains: when it
\* fails with a behaviour error, publickey is not offered or keys are
\* exhausted, and password is not offered, or declined, or its behaviour
\* call has just failed.
C20_BehaviourErrorSteps ==
    LastWasFailure =>
        /\ (au.last.calls.authkey = 1 /\ au.last.b.authkey.err # E_NONE
              /\ OfferedPassword /\ au.last.pre.try_password)
              => /\ au.last.calls.password = 1
                 /\ PasswordReturned =>
                       au.a.state = AuthState_Request(Req_Password(au.last.b.password.pw))
                 /\ (PasswordReturned /\ au.last.err # E_NONE) => au.last.err = E_NOROOM
        /\ au.last.err \in {E_NO_METHODS, E_NO_PASSWORD, E_BEHAVIOUR}
              => /\ ~(OfferedPubkey /\ au.a.try_pubkey)
                 /\ (OfferedPassword /\ au.a.try_password)
                       => (au.last.calls.password = 1 /\ au.last.b.password.err # E_NONE)

\* next_authkey failed, password was offered, and the password request
\* went out
C20_Witness ==
    /\ LastWasFailure /\ au.last.err = E_NONE
    /\ au.last.calls.authkey = 1 /\ au.last.b.authkey.err = E_BEHAVIOUR
    /\ OfferedPubkey /\ OfferedPassword
    /\ au.a.state.tag = "Request" /\ au.a.state.last_req.ty = "Password"
    /\ LastSent = <<PasswordRequest("matt", "hunter2")>>

\* C21: on UserauthSuccess the client sends ServiceRequest("ssh-connection"),
\* then notifies the behaviour through authenticated() exactly once, clears
\* the parse-context authentication type, and the auth state becomes Idle;
\* when the packet cannot be queued the handler returns the sender's error
\* with nothing sent, the behaviour not notified and the state unchanged.
C21_AuthSuccess ==
    (au.mode = "on" /\ au.last.op = "success") =>
        /\ au.ctx = CTX_NONE
        /\ au.last.err = E_NONE
              => /\ LastSent = <<PktServiceRequest(SSH_SERVICE_CONNECTION)>>
                 /\ au.last.calls = [NoCalls EXCEPT !.authenticated = 1]
                 /\ au.a = [au.last.pre EXCEPT !.state = AuthState_Idle]
        /\ au.last.err # E_NONE
              => /\ au.last.err = E_NOROOM
                 /\ LastSent = <<>>
                 /\ au.last.calls = NoCalls
                 /\ au.a = au.last.pre

\* a UserauthSuccess answered a signed public key request
C21_Witness ==
    /\ au.mode = "on" /\ au.last.op = "success" /\ au.last.err = E_NONE
    /\ au.last.pre.state.tag = "Request" /\ au.last.pre.state.last_req.ty = "PubKey"
    /\ au.a.state = AuthState_Idle /\ au.ctx = CTX_NONE
    /\ au.last.calls.authenticated = 1
    /\ Len(au.s.sent) >= 2 /\ au.s.sent[Len(au.s.sent) - 1].sig # NoSig

(***************************************************************************)
(* The codec harness: a packet and a parse context are chosen, write_ssh   *)
(* encodes the packet, packet_from_bytes decodes the bytes under the same  *)
(* context.  Between the two the name of a variant without a value may be  *)
(* overwritten with a name no variant has, and what was decoded may be     *)
(* encoded again.                                                          *)
(***************************************************************************)
WireEd25519Key == EnumVal("Ed25519", [key |-> "k1"])
WireRSAKey == EnumVal("RSA", [e |-> "e1", n |-> "n1"])
WireEd25519Sig == EnumVal("Ed25519", [sig |-> "sg"])

WireUserauthRequest(method) ==
    EnumVal("UserauthRequest",
            [username |-> "matt", service |-> SSH_SERVICE_CONNECTION, method |-> method])
WireMethodPubKey(sig_algo, pubkey, sig) ==
    EnumVal("PubKey", [sig_algo |-> sig_algo, pubkey |-> pubkey, sig |-> sig])
WireChannelOpen(num, initial_window, max_packet, ty) ==
    EnumVal("ChannelOpen", [num |-> num, initial_window |-> initial_window,
                            max_packet |-> max_packet, ty |-> ty])
WireTcpip(tag) ==
    EnumVal(tag, [address |-> "localhost", port |-> 4444,
                  origin |-> "somewhere", origin_port |-> 0])
WireChannelRequest(want_reply, req) ==
    EnumVal("ChannelRequest", [num |-> 7, want_reply |-> want_reply, req |-> req])

WirePackets ==
    <<EnumVal("ServiceRequest", [name |-> SSH_SERVICE_USERAUTH]),
      WireUserauthRequest(UnitVal("None")),
      WireUserauthRequest(EnumVal("Password", [change |-> FALSE, password |-> "pw"])),
      WireUserauthRequest(WireMethodPubKey(SSH_NAME_ED25519, WireEd25519Key, NoVal)),
      WireUserauthRequest(WireMethodPubKey(SSH_NAME_ED25519, WireEd25519Key,
                                           <<WireEd25519Sig>>)),
      WireUserauthRequest(WireMethodPubKey(SSH_NAME_RSA_SHA256, WireRSAKey, NoVal)),
      WireUserauthRequest(Unknown("hostbased")),
      WireUserauthRequest(WireMethodPubKey("ssh-dss", Unknown("ssh-dss"), NoVal)),
      WireUserauthRequest(WireMethodPubKey(SSH_NAME_ED25519, WireEd25519Key,
                                           <<Unknown("ssh-dss")>>)),
      EnumVal("Userauth60", EnumVal("PkOk", [algo |-> SSH_NAME_ED25519,
                                             key |-> WireEd25519Key])),
      EnumVal("Userauth60", EnumVal("PwChangeReq", [prompt |-> "new", lang |-> "en"])),
      EnumVal("Userauth60", EnumVal("PkOk", [algo |-> "ssh-dss",
                                             key |-> Unknown("ssh-dss")])),
      WireChannelOpen(0, 899, 14, UnitVal("Session")),
      WireChannelOpen(111, 50000, 20000, WireTcpip("DirectTcpip")),
      WireChannelOpen(3, 1000, 200, WireTcpip("ForwardedTcpip")),
      WireChannelOpen(0, 899, 14, Unknown("audio-stream")),
      WireChannelRequest(TRUE, UnitVal("Shell")),
      WireChannelRequest(TRUE, EnumVal("Exec", [command |-> "ls"])),
      WireChannelRequest(FALSE, EnumVal("ExitStatus", [status |-> 1])),
      WireChannelRequest(FALSE, Unknown("env"))>>

WireContexts ==
    {ParseContext(a, f) : a \in {CTX_NONE, CTX_PASSWORD, CTX_PUBKEY}, f \in BOOLEAN}
\* names no variant has
WireUnknownNames == {"audio-stream", "sesXion", "hostbased"}
\* the names of the variants that carry no value
WireUnitNames == {"session", SSH_NAME_NONE, "shell"}

WireInit ==
    /\ BesidesWireParked
    /\ \E i \in 1..Len(WirePackets) : \E c \in WireContexts :
        wr = [ParkedWr EXCEPT !.phase = "in", !.p = WirePackets[i], !.ctx = c]

WriteSsh ==
    /\ wr.phase = "in"
    /\ wr' = [wr EXCEPT !.phase = "enc", !.w = write_ssh(wr.p, wr.ctx)]
    /\ UNCHANGED besides_wire

\* the peer names a variant this side does not know
Rename(name) ==
    /\ wr.phase = "enc" /\ wr.w.err = E_NONE /\ wr.renamed = ""
    /\ \E j \in 1..Len(wr.w.buf) :
        /\ wr.w.buf[j].t = "string"
        /\ wr.w.buf[j].v \in WireUnitNames
        /\ wr' = [wr EXCEPT !.renamed = name, !.w.buf[j] = WStr(name)]
    /\ UNCHANGED besides_wire

PacketFromBytes ==
    /\ wr.phase = "enc" /\ wr.w.err = E_NONE
    /\ wr' = [wr EXCEPT !.phase = "dec", !.d = packet_from_bytes(wr.w.buf, wr.ctx)]
    /\ UNCHANGED besides_wire

\* what was decoded is encoded again
Reencode ==
    /\ wr.phase = "dec" /\ wr.d.err = E_NONE
    /\ wr' = [wr EXCEPT !.phase = "re", !.w2 = write_ssh(wr.d.val, wr.ctx)]
    /\ UNCHANGED besides_wire

WireNext ==
    \/ WriteSsh
    \/ \E name \in WireUnknownNames : Rename(name)
    \/ PacketFromBytes
    \/ Reencode

SpecWire == WireInit /\ [][WireNext]_vars

\* a value of type ty holds an Unknown variant
RECURSIVE HasUnknown(_, _)
HasUnknown(ty, v) ==
    CASE ty.k \in {"u32", "bool", "string"} -> FALSE
      [] ty.k = "Blob" -> HasUnknown(ty.of, v)
      [] ty.k = "Option" -> v # NoVal /\ HasUnknown(ty.of, v[1])
      [] ty.k \in {"struct", "MethodPubKey"} ->
            \E i \in 1..Len(ty.fields) : HasUnknown(ty.fields[i].ty, v[ty.fields[i].name])
      [] ty.k \in {"enum", "Userauth60"} ->
            \/ v.tag = "Unknown"
            \/ ~VariantOf(ty, v.tag).unit /\ HasUnknown(VariantOf(ty, v.tag).ty, v.val)
PacketHasUnknown(p) == HasUnknown(MessageOf(p.tag).ty, p.val)

\* the field of each packet that is a tagged union named by the packet
UnionField(tag) ==
    CASE tag = "UserauthRequest" -> "method"
      [] tag = "ChannelOpen" -> "ty"
      [] tag = "ChannelRequest" -> "req"
\* the packet p with its union replaced by the Unknown variant of a name
WithUnknown(p, name) == [p EXCEPT !.val[UnionField(p.tag)] = Unknown(name)]

\* C22: decoding a tagged union whose name is no known variant succeeds and
\* yields the Unknown variant holding the name, the other fields as they
\* were sent; encoding a value that holds an Unknown variant fails with a
\* bug error and produces no packet.
C22_UnknownVariant ==
    /\ (wr.phase \in {"dec", "re"} /\ wr.renamed # "") =>
            /\ wr.d.err = E_NONE
            /\ SamePacket(wr.d.val, WithUnknown(wr.p, wr.renamed))
            /\ wr.d.s = <<>>
    /\ (wr.phase \in {"enc", "dec", "re"} /\ PacketHasUnknown(wr.p)) =>
            wr.w = [err |-> E_BUG, buf |-> <<>>]
    /\ (wr.phase = "re" /\ PacketHasUnknown(wr.d.val)) =>
            wr.w2 = [err |-> E_BUG, buf |-> <<>>]

\* a ChannelOpen whose type was overwritten with audio-stream was decoded
\* to the Unknown variant, and encoding that again failed
C22_Witness ==
    /\ wr.phase = "re" /\ wr.renamed = "audio-stream"
    /\ wr.p.tag = "ChannelOpen"
    /\ wr.d.err = E_NONE
    /\ wr.d.val.val.ty.tag = "Unknown"
    /\ wr.d.val.val.ty.val = "audio-stream"
    /\ wr.w2.err = E_BUG

\* a packet and a context the packet can be decoded under: a Userauth60 is
\* decoded as the variant the context's authentication type calls for, and
\* a publickey request without a signature is not written under a context
\* that forces the signature flag
PubKeyUnsigned(p) ==
    /\ p.tag = "UserauthRequest" /\ p.val.method.tag = "PubKey"
    /\ p.val.method.val.sig = NoVal
ContextFits(p, ctx) ==
    /\ p.tag = "Userauth60" =>
            ctx.cli_auth_type =
                (IF p.val.tag = "PkOk" THEN CTX_PUBKEY ELSE CTX_PASSWORD)
    /\ PubKeyUnsigned(p) => ~ctx.method_pubkey_force_sig_bool

\* write_ssh succeeded and packet_from_bytes gave the packet back
RoundTrips ==
    /\ wr.w.err = E_NONE
    /\ wr.phase \in {"dec", "re"} =>
            /\ wr.d.err = E_NONE
            /\ wr.d.s = <<>>
            /\ SamePacket(wr.d.val, wr.p)

\* C23 as claimed: every packet without an Unknown variant, encoded and
\* then decoded with the same parse context, whatever the context, decodes
\* to itself.
C23_AsClaimed ==
    (wr.phase \in {"enc", "dec", "re"} /\ wr.renamed = "" /\ ~PacketHasUnknown(wr.p))
        => RoundTrips

\* C23: every packet without an Unknown variant, encoded and then decoded
\* with the same parse context, decodes to itself when that context fits
\* the packet: the authentication type of the context is the one the
\* variant of a Userauth60 belongs to, and the context does not force the
\* signature flag of a publickey request that carries no signature.  So do
\* ChannelOpen of type session and direct-tcpip and a publickey request
\* with and without a signature.  Under a context that does not fit, the
\* bytes are written and decoding them fails or gives another packet.
C23_RoundTrip ==
    (wr.phase \in {"enc", "dec", "re"} /\ wr.renamed = "" /\ ~PacketHasUnknown(wr.p))
        => /\ ContextFits(wr.p, wr.ctx) => RoundTrips
           /\ ~ContextFits(wr.p, wr.ctx) =>
                /\ wr.w.err = E_NONE
                /\ wr.phase \in {"dec", "re"} =>
                        \/ wr.d.err \in {E_PACKETWRONG, E_RANOUT}
                        \/ wr.d.err = E_NONE /\ ~SamePacket(wr.d.val, wr.p)

\* a publickey request with a signature came back as it was sent, under a
\* context that forces the signature flag
C23_Witness ==
    /\ wr.phase = "dec" /\ wr.renamed = ""
    /\ wr.p.tag = "UserauthRequest" /\ wr.p.val.method.tag = "PubKey"
    /\ wr.p.val.method.val.sig # NoVal
    /\ wr.ctx.method_pubkey_force_sig_bool
    /\ wr.d.err = E_NONE /\ SamePacket(wr.d.val, wr.p)

(***************************************************************************)
(* The key exchange harnesses.  In SpecKex one engine is driven through    *)
(* the Kex methods by its caller, with packets of the peer's choosing and  *)
(* in any order; in SpecPair a client and a server engine talk over two    *)
(* FIFO wires, each inbound packet dispatched to its handler.              *)
(***************************************************************************)
\* Kex method calls on the engine of SpecKex
MaxOps == 6
\* completed exchanges per engine in SpecPair
MaxKex == 2

\* packets TrafSend has room for during one call
Rooms == 0..2
PAIR_ROOM == 2

TheHostKey == HostKey(SSH_NAME_ED25519, "hostkey")
ServerHostKeys == <<TheHostKey>>

\* public points a peer sends: 0 is not 32 bytes long
EnvPoints == {0} \cup Randoms

\* KexInit packets a peer of engine r sends: what this code sends in the
\* peer's role; a first-follows packet guessing an algorithm we lack; no
\* common kex; a different cipher in each direction
EnvKexInits(r) ==
    LET pc == AlgoConfig(r # "cli")
        std(c) == make_kexinit(c, pc)
    IN  {std(c) : c \in Randoms} \cup
        { [std(1) EXCEPT !.kex = <<NAME_DH14>> \o pc.kexs, !.first_follows = TRUE],
          [std(1) EXCEPT !.kex = <<NAME_DH14>>],
          [std(1) EXCEPT !.cipher_c2s = <<SSH_NAME_CHAPOLY>>,
                         !.cipher_s2c = <<SSH_NAME_AES256_CTR>>] }

\* the exchange hash engine e reaches with the peer's point q and host key
ExpectedH(e, k_s, q_s) ==
    LET a == e.kex.algos
    IN  KexHash_finish(KexHash_prefinish(e.kex.kex_hash, k_s, a.kex.pubkey, q_s),
                       agree(a.kex.ours, q_s))

\* a KexDHReply with point q, signed over the right hash or not
EnvKexDHReply(e, q, good) ==
    [ty |-> "KexDHReply", k_s |-> TheHostKey, q_s |-> q,
     sig |-> sign(TheHostKey, IF good THEN ExpectedH(e, TheHostKey, q) ELSE <<>>)]

HostkeyAnswers == {"true", "false", "err"}

\* the packet ignored by a first-follows discard
Discarded(e, e2) ==
    /\ e.kex.tag = "KexDH" /\ e.kex.algos.discard_next
    /\ e2.kex.tag = "KexDH" /\ ~e2.kex.algos.discard_next

\* the harness state after engine r has run method op with result res
Called(r, op, res) ==
    LET e == kx.eng[r]
    IN  [kx EXCEPT
            !.eng[r] = [res.e EXCEPT !.room = 0],
            !.last = [r |-> r, op |-> op, err |-> res.err],
            !.nops = @ + 1,
            !.dead[r] = @ \/ res.err # E_NONE,
            !.hlog[r] = IF op = "handle_newkeys" /\ res.err = E_NONE
                        THEN Append(@, e.kex.output.h) ELSE @,
            !.ndisc[r] = IF op \in {"handle_kexdhinit", "handle_kexdhreply"}
                            /\ res.err = E_NONE /\ Discarded(e, res.e)
                         THEN @ + 1 ELSE @]

WithRoom(e, room) == [e EXCEPT !.room = room]

KexApiInit ==
    /\ BesidesKexParked
    /\ \E r \in Roles : kx = [ParkedKx EXCEPT !.mode = r]

ApiGuard(r) == kx.mode = r /\ kx.nops < MaxOps

\* Inputs a call does not look at in the engine's state are not varied.
ApiSendKexInit(r) ==
    /\ ApiGuard(r)
    /\ \E cookie \in Randoms, room \in Rooms :
        /\ kx.eng[r].kex.tag = "Idle" \/ (cookie = 1 /\ room = 0)
        /\ kx' = Called(r, "send_kexinit",
                        Kex_send_kexinit(WithRoom(kx.eng[r], room), AlgoConfig(r = "cli"),
                                         cookie))
    /\ UNCHANGED besides_kex

ApiHandleKexInit(r) ==
    /\ ApiGuard(r)
    /\ \E p \in EnvKexInits(r), cookie \in Randoms, rnd \in Randoms, room \in Rooms :
        /\ kx.eng[r].kex.tag = "Idle" \/ cookie = 1
        /\ kx.eng[r].kex.tag \in {"Idle", "KexInit"}
              \/ (rnd = 1 /\ room = 0 /\ p = make_kexinit(1, AlgoConfig(r # "cli")))
        /\ kx' = Called(r, "handle_kexinit",
                        Kex_handle_kexinit(WithRoom(kx.eng[r], room), p,
                                           AlgoConfig(r = "cli"), cookie, rnd))
    /\ UNCHANGED besides_kex

ApiHandleKexDHInit(r) ==
    /\ ApiGuard(r)
    /\ \E q \in EnvPoints, room \in Rooms, debug \in BOOLEAN :
        /\ kx.eng[r].kex.tag = "KexDH" \/ (q = 0 /\ room = 0)
        /\ kx.eng[r].kex.tag = "Taken" \/ ~debug
        /\ kx' = Called(r, "handle_kexdhinit",
                        take_asserted(kx.eng[r], debug,
                            Kex_handle_kexdhinit(WithRoom(kx.eng[r], room),
                                                 [ty |-> "KexDHInit", q_c |-> q],
                                                 ServerHostKeys)))
    /\ UNCHANGED besides_kex

ApiHandleKexDHReply(r) ==
    /\ ApiGuard(r)
    /\ \E q \in EnvPoints, good \in BOOLEAN, valid \in HostkeyAnswers, room \in Rooms,
          debug \in BOOLEAN :
        /\ kx.eng[r].kex.tag = "KexDH"
              \/ (q = 0 /\ ~good /\ valid = "true" /\ room = 0)
        /\ kx.eng[r].kex.tag = "Taken" \/ ~debug
        /\ kx' = Called(r, "handle_kexdhreply",
                        take_asserted(kx.eng[r], debug,
                            Kex_handle_kexdhreply(WithRoom(kx.eng[r], room),
                                                  EnvKexDHReply(kx.eng[r], q, good),
                                                  valid)))
    /\ UNCHANGED besides_kex

ApiHandleNewKeys(r) ==
    /\ ApiGuard(r)
    /\ \E debug \in BOOLEAN :
        /\ kx.eng[r].kex.tag = "Taken" \/ ~debug
        /\ kx' = Called(r, "handle_newkeys",
                        take_asserted(kx.eng[r], debug, Kex_handle_newkeys(kx.eng[r])))
    /\ UNCHANGED besides_kex

KexNext ==
    \E r \in Roles :
        \/ ApiSendKexInit(r)
        \/ ApiHandleKexInit(r)
        \/ ApiHandleKexDHInit(r)
        \/ ApiHandleKexDHReply(r)
        \/ ApiHandleNewKeys(r)

SpecKex == KexApiInit /\ [][KexNext]_vars

\* packets e2 has sent since e
NewlySent(e, e2) == SubSeq(e2.sent, Len(e.sent) + 1, Len(e2.sent))

\* the host key's signature in p over the exchange hash engine e reaches
Verified(e, p) ==
    SigType_verify(e.kex.algos.hostsig, p.k_s, ExpectedH(e, p.k_s, p.q_s), p.sig) = E_NONE

\* the types of the packets e2 has sent since e
NewlySentTypes(e, e2) == [i \in 1..(Len(e2.sent) - Len(e.sent)) |-> NewlySent(e, e2)[i].ty]

\* C28: a client handling a KexDHReply sends its NewKeys or enters NewKeys
\* only if the host key's signature over the exchange hash verified and
\* valid_hostkey answered Ok(true); if the signature does not verify, or the
\* behaviour answers Ok(false) or an error, the call fails, no NewKeys is
\* sent and NewKeys is not entered.
C28_NewKeysAfterHostKey ==
    [][ LET e == kx.eng["cli"]
            e2 == kx'.eng["cli"]
        IN  (/\ kx'.nops # kx.nops /\ kx'.last.r = "cli"
             /\ kx'.last.op = "handle_kexdhreply"
             /\ e.kex.tag = "KexDH" /\ ~e.kex.algos.discard_next)
            => \A q \in EnvPoints, good \in BOOLEAN, valid \in HostkeyAnswers,
                  room \in Rooms :
                 LET p == EnvKexDHReply(e, q, good)
                     res == Kex_handle_kexdhreply(WithRoom(e, room), p, valid)
                 IN  (e2 = [res.e EXCEPT !.room = 0] /\ kx'.last.err = res.err)
                     => /\ (e2.kex.tag = "NewKeys" \/ NewlySent(e, e2) # <<>>)
                            => Verified(e, p) /\ valid = "true"
                        /\ ~(Verified(e, p) /\ valid = "true")
                            => /\ kx'.last.err # E_NONE
                               /\ NewlySent(e, e2) = <<>>
                               /\ e2.kex.tag # "NewKeys"
      ]_vars

\* the client has verified and accepted the host key and has sent NewKeys
C28_Witness ==
    /\ kx.mode = "cli" /\ kx.ndisc["cli"] = 0
    /\ kx.last.op = "handle_kexdhreply" /\ kx.last.err = E_NONE
    /\ kx.eng["cli"].kex.tag = "NewKeys"
    /\ kx.eng["cli"].sent[Len(kx.eng["cli"].sent)] = PktNewKeys

\* C29: handle_kexinit in Idle sends our own KexInit first; in Idle or
\* KexInit, when it succeeds, a client has then sent exactly one KexDHInit
\* and a server nothing more, and the state is KexDH; in KexDH or NewKeys it
\* fails with PacketWrong and sends nothing.
C29_HandleKexInit ==
    [][ \A r \in Roles :
          LET e == kx.eng[r]
              e2 == kx'.eng[r]
              tys == NewlySentTypes(e, e2)
              after == IF r = "cli" THEN <<"KexDHInit">> ELSE <<>>
          IN  (/\ kx'.nops # kx.nops /\ kx'.last.r = r
               /\ kx'.last.op = "handle_kexinit")
              => /\ e.kex.tag = "Idle" =>
                      /\ tys # <<>> => tys[1] = "KexInit"
                      /\ tys = <<>> => kx'.last.err = E_NOROOM
                      /\ kx'.last.err = E_NONE =>
                            tys = <<"KexInit">> \o after /\ e2.kex.tag = "KexDH"
                 /\ e.kex.tag = "KexInit" =>
                      /\ kx'.last.err = E_NONE => tys = after /\ e2.kex.tag = "KexDH"
                      /\ kx'.last.err # E_NONE => Len(tys) <= Len(after)
                 /\ e.kex.tag \in {"KexDH", "NewKeys"} =>
                      kx'.last.err = E_PACKETWRONG /\ tys = <<>>
      ]_vars

\* a client in Idle was given the peer's KexInit and has sent its own
\* KexInit and one KexDHInit
C29_Witness ==
    /\ kx.mode = "cli" /\ kx.nops = 1
    /\ kx.last.op = "handle_kexinit" /\ kx.last.err = E_NONE
    /\ kx.eng["cli"].kex.tag = "KexDH"
    /\ Len(kx.eng["cli"].sent) = 2
    /\ kx.eng["cli"].sent[1].ty = "KexInit" /\ kx.eng["cli"].sent[2].ty = "KexDHInit"

\* C30: a server in KexDH whose handle_kexdhinit succeeds on a packet that
\* is not to be discarded has sent KexDHReply and then NewKeys, once each,
\* and is in NewKeys, and whatever it sends is a prefix of these two;
\* handle_kexdhinit on a client in KexDH fails with a bug error, sends
\* nothing and leaves the state as it was.
C30_HandleKexDHInit ==
    [][ \A r \in Roles :
          LET e == kx.eng[r]
              e2 == kx'.eng[r]
              tys == NewlySentTypes(e, e2)
              both == <<"KexDHReply", "NewKeys">>
          IN  (/\ kx'.nops # kx.nops /\ kx'.last.r = r
               /\ kx'.last.op = "handle_kexdhinit" /\ e.kex.tag = "KexDH")
              => IF e.kex.algos.is_client
                 THEN kx'.last.err = E_BUG /\ tys = <<>> /\ e2.kex = e.kex
                 ELSE ~e.kex.algos.discard_next =>
                        /\ tys = SubSeq(both, 1, Len(tys))
                        /\ kx'.last.err = E_NONE =>
                              tys = both /\ e2.kex.tag = "NewKeys"
      ]_vars

\* the server has answered a KexDHInit with KexDHReply and NewKeys
C30_Witness ==
    LET sent == kx.eng["srv"].sent
    IN  /\ kx.mode = "srv" /\ kx.ndisc["srv"] = 0
        /\ kx.last.op = "handle_kexdhinit" /\ kx.last.err = E_NONE
        /\ kx.eng["srv"].kex.tag = "NewKeys"
        /\ Len(sent) >= 2
        /\ sent[Len(sent) - 1].ty = "KexDHReply" /\ sent[Len(sent)] = PktNewKeys

\* a client in KexDH was handed a KexDHInit
C30_ClientWitness ==
    /\ kx.mode = "cli" /\ kx.last.op = "handle_kexdhinit" /\ kx.last.err = E_BUG
    /\ kx.eng["cli"].kex.tag = "KexDH"

\* C31: handle_newkeys in state NewKeys, when it succeeds, puts the keys
\* derived from that exchange in use, once, and leaves the exchange Idle;
\* in Idle, KexInit or KexDH it fails with PacketWrong, changes no keys and
\* does not set the session id; the keys in use change in no other call.
C31_NewKeysOnlyInNewKeys ==
    [][ \A r \in Roles :
          LET e == kx.eng[r]
              e2 == kx'.eng[r]
              sid == SessIdGetOrInsert(e.sess_id, e.kex.output.h)
          IN  /\ (/\ kx'.nops # kx.nops /\ kx'.last.r = r
                  /\ kx'.last.op = "handle_newkeys")
                 => /\ (e.kex.tag = "NewKeys" /\ kx'.last.err = E_NONE) =>
                         /\ e2.kex = Kex_Idle
                         /\ e2.sess_id = sid
                         /\ e2.keys = KeyState_rekey(e.keys,
                               Keys_derive(e.kex.output, sid[1], e.kex.algos).keys)
                         /\ Len(kx'.hlog[r]) = Len(kx.hlog[r]) + 1
                    /\ e.kex.tag \in {"Idle", "KexInit", "KexDH"} =>
                         /\ kx'.last.err = E_PACKETWRONG
                         /\ e2.keys = e.keys
                         /\ e2.sess_id = e.sess_id
              /\ e2.keys # e.keys =>
                    /\ kx'.last.r = r /\ kx'.last.op = "handle_newkeys"
                    /\ kx'.last.err = E_NONE /\ e.kex.tag = "NewKeys"
      ]_vars

\* a peer's NewKeys was accepted in NewKeys and the new keys are in use
C31_Witness ==
    \E r \in Roles :
        /\ kx.mode = r /\ kx.last.op = "handle_newkeys" /\ kx.last.err = E_NONE
        /\ Len(kx.hlog[r]) = 1 /\ kx.eng[r].kex.tag = "Idle"
        /\ kx.eng[r].keys.keys.enc.key.h = kx.hlog[r][1]

\* a peer's NewKeys was refused in KexDH
C31_RefusedWitness ==
    \E r \in Roles :
        /\ kx.mode = r /\ kx.last.op = "handle_newkeys"
        /\ kx.last.err = E_PACKETWRONG /\ kx.eng[r].sess_id = NoSessId
        /\ kx.nops = 2

\* C32: after a Kex method has returned Ok the state is Idle, KexInit,
\* KexDH or NewKeys; Taken is seen between calls only after a call has
\* returned an error.
C32_TakenOnlyInside ==
    \A r \in Roles :
        /\ (kx.mode = r /\ kx.last.op # "none" /\ kx.last.err = E_NONE)
              => kx.eng[r].kex.tag \in {"Idle", "KexInit", "KexDH", "NewKeys"}
        /\ kx.eng[r].kex.tag = "Taken" => kx.dead[r]

\* a second exchange has gone through take() twice more and is Idle again
C32_Witness ==
    \E r \in Roles :
        /\ kx.mode = r /\ kx.last.op = "handle_newkeys" /\ kx.last.err = E_NONE
        /\ Len(kx.hlog[r]) = 2 /\ kx.eng[r].kex.tag = "Idle"

\* C34: whenever the state is NewKeys our own NewKeys is the packet sent
\* last, also when a send on the way to NewKeys failed.
C34_AsClaimed ==
    \A r \in Roles :
        kx.eng[r].kex.tag = "NewKeys"
            => /\ kx.eng[r].sent # <<>>
               /\ kx.eng[r].sent[Len(kx.eng[r].sent)] = PktNewKeys

\* C35: a KexDHInit or KexDHReply outside KexDH and a NewKeys outside
\* NewKeys leave the state Taken; in Taken every Kex method fails and the
\* state stays Taken, so no exchange completes any more.
C35_TakenIsFinal ==
    [][ \A r \in Roles :
          LET e == kx.eng[r]
              e2 == kx'.eng[r]
              op == kx'.last.op
          IN  (kx'.nops # kx.nops /\ kx'.last.r = r)
              => /\ (\/ (/\ op \in {"handle_kexdhinit", "handle_kexdhreply"}
                          /\ e.kex.tag \in {"Idle", "KexInit", "NewKeys"})
                      \/ (/\ op = "handle_newkeys"
                          /\ e.kex.tag \in {"Idle", "KexInit", "KexDH"}))
                     => kx'.last.err = E_PACKETWRONG /\ e2.kex.tag = "Taken"
                 /\ e.kex.tag = "Taken"
                     => /\ kx'.last.err # E_NONE
                        /\ e2.kex.tag = "Taken"
                        /\ kx'.hlog[r] = kx.hlog[r]
                        /\ e2.keys = e.keys /\ e2.sent = e.sent
      ]_vars

\* in Taken, send_kexinit has failed
C35_Witness ==
    \E r \in Roles :
        /\ kx.mode = r /\ kx.eng[r].kex.tag = "Taken"
        /\ kx.last.op = "send_kexinit" /\ kx.last.err = E_BUG

\* in Taken, a build with debug assertions has panicked in take()
C35_PanicWitness ==
    \E r \in Roles : kx.mode = r /\ kx.last.err = E_PANIC

\* C36: for every set of algorithms algo_negotiation has produced,
\* Keys::new_from succeeds and gives each direction's integrity key the
\* length of that direction's own integrity algorithm.
C36_AsClaimed ==
    \A r \in Roles :
        LET e == kx.eng[r]
            sid == SessIdGetOrInsert(e.sess_id, e.kex.output.h)
            d == Keys_derive(e.kex.output, sid[1], e.kex.algos)
        IN  (kx.mode = r /\ e.kex.tag = "NewKeys") =>
                /\ d.err = E_NONE
                /\ d.keys.integ_enc.key.len = Integ_key_len(e.kex.algos.integ_enc)
                /\ d.keys.integ_dec.key.len = Integ_key_len(e.kex.algos.integ_dec)

\* a local trigger: engine r starts a key exchange
PairSendKexInit(r) ==
    /\ kx.mode = "pair" /\ ~kx.dead[r]
    /\ kx.eng[r].kex.tag = "Idle"
    /\ Len(kx.hlog[r]) < MaxKex
    /\ \E cookie \in Randoms :
        LET res == Kex_send_kexinit(WithRoom(kx.eng[r], PAIR_ROOM), AlgoConfig(r = "cli"),
                                    cookie)
        IN  kx' = [Called(r, "send_kexinit", res) EXCEPT
                     !.wire[Peer(r)] = @ \o NewlySent(kx.eng[r], res.e)]
    /\ UNCHANGED besides_kex

\* the handler the connection dispatches packet p to
Dispatch(e, p, cookie, rnd, valid) ==
    IF p.ty = "KexInit"
    THEN [op |-> "handle_kexinit",
          res |-> Kex_handle_kexinit(e, p, AlgoConfig(e.is_client), cookie, rnd)]
    ELSE IF p.ty = "KexDHInit"
    THEN [op |-> "handle_kexdhinit", res |-> Kex_handle_kexdhinit(e, p, ServerHostKeys)]
    ELSE IF p.ty = "KexDHReply"
    THEN [op |-> "handle_kexdhreply", res |-> Kex_handle_kexdhreply(e, p, valid)]
    ELSE [op |-> "handle_newkeys", res |-> Kex_handle_newkeys(e)]

\* engine r takes the next packet off its wire
PairDeliver(r) ==
    /\ kx.mode = "pair" /\ ~kx.dead[r]
    /\ kx.wire[r] # <<>>
    /\ \E cookie \in Randoms, rnd \in Randoms, valid \in HostkeyAnswers :
        LET p == Head(kx.wire[r])
            d == Dispatch(WithRoom(kx.eng[r], PAIR_ROOM), p, cookie, rnd, valid)
        IN  /\ p.ty = "KexInit" \/ (cookie = 1 /\ rnd = 1)
            /\ p.ty = "KexDHReply" \/ valid = "true"
            /\ kx' = [Called(r, d.op, d.res) EXCEPT
                        !.wire[r] = Tail(@),
                        !.wire[Peer(r)] = @ \o NewlySent(kx.eng[r], d.res.e)]
    /\ UNCHANGED besides_kex

PairInit ==
    /\ BesidesKexParked
    /\ kx = [ParkedKx EXCEPT !.mode = "pair"]

PairNext == \E r \in Roles : PairSendKexInit(r) \/ PairDeliver(r)

SpecPair == PairInit /\ [][PairNext]_vars

(***************************************************************************)
(* Runner (runner.rs): the engine behind the input and the output side.    *)
(* traffic.rs and conn.rs are not among the sources.  The Traffic here is  *)
(* the one packet buffer of the specification: it takes input while it     *)
(* holds neither a payload nor output, reports no progress otherwise, and  *)
(* refuses input after a packet it rejected.  Conn::handle_payload hands a *)
(* KexDHReply to Kex::handle_kexdhreply; what the other handlers and       *)
(* Conn::progress return is an input.  A waker is the number of its        *)
(* registration.                                                           *)
(***************************************************************************)
\* packets the traffic buffer has room for
MaxOut == 2

NoWaker == 0
NoPayload == [ty |-> "none"]

Traffic_new == [payload |-> NoPayload, out |-> 0, dead |-> FALSE]
Traffic_ready_input(t) == t.payload.ty = "none" /\ t.out = 0

\* Traffic::input: inp is what the bytes given complete (part of a packet,
\* a packet with its payload, or a packet that fails to decrypt)
Traffic_input(t, inp) ==
    IF t.dead THEN [err |-> E_SSHPROTO, size |-> 0, t |-> t]
    ELSE IF ~Traffic_ready_input(t) THEN [err |-> E_NONE, size |-> 0, t |-> t]
    ELSE IF inp.k = "bad"
    THEN [err |-> E_BADDECRYPT, size |-> 0, t |-> [t EXCEPT !.dead = TRUE]]
    ELSE IF inp.k = "partial" THEN [err |-> E_NONE, size |-> 1, t |-> t]
    ELSE [err |-> E_NONE, size |-> 1, t |-> [t EXCEPT !.payload = inp.p]]

\* Traffic::output into a buffer that holds n packets
Traffic_output(t, n) ==
    LET w == IF n < t.out THEN n ELSE t.out
    IN  [size |-> w, t |-> [t EXCEPT !.out = @ - w]]

Traffic_done_payload(t) == [t EXCEPT !.payload = NoPayload]

\* Runner::new
Runner_new(e) ==
    [eng |-> e, traffic |-> Traffic_new, output_waker |-> NoWaker,
     input_waker |-> NoWaker, woken |-> <<>>, ndispatch |-> 0]

\* Waker::wake
Waker_wake(r, w) == [r EXCEPT !.woken = Append(@, w)]

Runner_set_output_waker(r, w) == [r EXCEPT !.output_waker = w]
Runner_set_input_waker(r, w) == [r EXCEPT !.input_waker = w]
Runner_ready_input(r) == Traffic_ready_input(r.traffic)

\* a mutant of Runner::input: the waker is woken and kept
Runner_input_keeps_waker(r, inp) ==
    LET t == Traffic_input(r.traffic, inp)
        r1 == [r EXCEPT !.traffic = t.t]
    IN  IF t.err # E_NONE THEN [err |-> t.err, size |-> 0, r |-> r1]
        ELSE IF r1.traffic.payload.ty # "none" /\ r1.output_waker # NoWaker
        THEN [err |-> E_NONE, size |-> t.size, r |-> Waker_wake(r1, r1.output_waker)]
        ELSE [err |-> E_NONE, size |-> t.size, r |-> r1]

\* Runner::input
Runner_input(r, inp) ==
    LET t == Traffic_input(r.traffic, inp)
        r1 == [r EXCEPT !.traffic = t.t]
    IN  IF t.err # E_NONE THEN [err |-> t.err, size |-> 0, r |-> r1]
        ELSE IF r1.traffic.payload.ty # "none" /\ r1.output_waker # NoWaker
        THEN [err |-> E_NONE, size |-> t.size,
              r |-> Waker_wake([r1 EXCEPT !.output_waker = NoWaker], r1.output_waker)]
        ELSE [err |-> E_NONE, size |-> t.size, r |-> r1]

\* a mutant of Runner::output: readiness is looked at before the output is
\* written
Runner_output_ready_before(r, n) ==
    LET o == Traffic_output(r.traffic, n)
        r1 == [r EXCEPT !.traffic = o.t]
    IN  IF Runner_ready_input(r) /\ r1.input_waker # NoWaker
        THEN [err |-> E_NONE, size |-> o.size,
              r |-> Waker_wake([r1 EXCEPT !.input_waker = NoWaker], r1.input_waker)]
        ELSE [err |-> E_NONE, size |-> o.size, r |-> r1]

\* Runner::output
Runner_output(r, n) ==
    LET o == Traffic_output(r.traffic, n)
        r1 == [r EXCEPT !.traffic = o.t]
    IN  IF Runner_ready_input(r1) /\ r1.input_waker # NoWaker
        THEN [err |-> E_NONE, size |-> o.size,
              r |-> Waker_wake([r1 EXCEPT !.input_waker = NoWaker], r1.input_waker)]
        ELSE [err |-> E_NONE, size |-> o.size, r |-> r1]

\* Conn::handle_payload run to its end on engine e: b.valid is the answer
\* of valid_hostkey, b.auth what handling a message 60 comes to
Conn_handle_payload(e, p, b) ==
    IF p.ty = "KexDHReply" THEN Kex_handle_kexdhreply(e, p, b.valid)
    ELSE IF p.ty = "Userauth60" /\ b.auth = E_NONE
    THEN TrafSend_send(e, [ty |-> "UserauthRequest"])
    ELSE IF p.ty = "Userauth60" THEN [err |-> b.auth, e |-> e]
    ELSE [err |-> E_NONE, e |-> e]

\* a mutant of SuspendsAt: valid_hostkey is awaited too, reached in KexDH
\* once the signature is verified
SuspendsAt_hostkey_awaited(e, p, b) ==
    IF ~b.pending THEN "none"
    ELSE IF p.ty = "Userauth60" THEN "sign"
    ELSE IF /\ p.ty = "KexDHReply" /\ e.kex.tag = "KexDH"
            /\ e.kex.algos.is_client /\ ~e.kex.algos.discard_next
            /\ SharedSecret_handle_kexdhreply(e.kex.algos, e.kex.kex_hash, p,
                                              "true").err = E_NONE
    THEN "hostkey"
    ELSE "none"

\* the await at which handle_payload stays pending when the behaviour's
\* future is not ready: the agent's signature of the request a message 60
\* asks for (cliauth.rs).  valid_hostkey is called without an await, and
\* SharedSecret::handle_kexdhreply has no other: a KexDHReply is handled
\* in one poll.
SuspendsAt(e, p, b) ==
    IF ~b.pending THEN "none"
    ELSE IF p.ty = "Userauth60" THEN "sign"
    ELSE "none"

\* the future of out_progress: the await it is suspended at and the engine
\* as the handler found it
NoFut == [at |-> "none"]
Suspended(at, e) == [at |-> at, e |-> e]

OutDone(err, r) == [pending |-> FALSE, err |-> err, r |-> r, fut |-> NoFut]

\* Runner::out_progress from handle_payload's return on: e0 is the engine
\* the handler started from
out_progress_finish(r, e0, b) ==
    LET h == Conn_handle_payload(WithRoom(e0, MaxOut - r.traffic.out),
                                 r.traffic.payload, b)
        sent == Len(h.e.sent) - Len(e0.sent)
        r1 == [r EXCEPT !.eng = [h.e EXCEPT !.room = 0]]
        r2 == [r1 EXCEPT !.traffic = [Traffic_done_payload(@) EXCEPT !.out = @ + sent]]
    IN  IF h.err # E_NONE THEN OutDone(h.err, r1)
        ELSE OutDone(b.progress, r2)

\* one poll of the future of Runner::out_progress
out_progress_poll(r, fut, b) ==
    IF fut.at # "none" THEN out_progress_finish(r, fut.e, b)
    ELSE IF r.traffic.payload.ty = "none" THEN OutDone(E_NONE, r)
    ELSE
        LET at == SuspendsAt(r.eng, r.traffic.payload, b)
            r1 == [r EXCEPT !.ndispatch = @ + 1]
        IN  IF at = "none" THEN out_progress_finish(r1, r.eng, b)
            ELSE [pending |-> TRUE, err |-> E_NONE,
                  r |-> IF at = "hostkey" THEN [r1 EXCEPT !.eng = Kex_take(@)] ELSE r1,
                  fut |-> Suspended(at, r.eng)]

\* Runner::out_progress awaited to its end
Runner_out_progress(r, b) ==
    LET p1 == out_progress_poll(r, NoFut, b)
    IN  IF p1.pending THEN out_progress_poll(p1.r, p1.fut, b) ELSE p1

(***************************************************************************)
(* The runner harness: a client's Runner whose key exchange waits for the  *)
(* KexDHReply.  The caller registers wakers, gives input, runs             *)
(* out_progress to its end and takes output; last is the call that just    *)
(* returned, with the Runner it found.                                     *)
(***************************************************************************)
MaxRunOps == 5

\* a client that has sent its KexInit and got the server's
RunEngine ==
    Kex_handle_kexinit(
        Kex_send_kexinit(WithRoom(NewEngine(TRUE, OurVersion("cli"), <<OurVersion("srv")>>), 2),
                         AlgoConfig(TRUE), 1).e,
        make_kexinit(1, AlgoConfig(FALSE)), AlgoConfig(TRUE), 1, 1).e

\* what the bytes of one Runner::input complete
RunInputs(e) ==
    { [k |-> "partial", p |-> NoPayload], [k |-> "bad", p |-> NoPayload],
      [k |-> "packet", p |-> EnvKexDHReply(e, 1, TRUE)],
      [k |-> "packet", p |-> EnvKexDHReply(e, 1, FALSE)],
      [k |-> "packet", p |-> [ty |-> "Userauth60"]],
      [k |-> "packet", p |-> [ty |-> "Debug"]] }

\* what the behaviour and the handlers not modelled answer while payload p
\* is handled
RunBehaviours(p) ==
    { [valid |-> v, pending |-> s, auth |-> a, progress |-> g] :
        v \in IF p.ty = "KexDHReply" THEN HostkeyAnswers ELSE {"true"},
        s \in IF p.ty \in {"KexDHReply", "Userauth60"} THEN BOOLEAN ELSE {FALSE},
        a \in IF p.ty = "Userauth60" THEN {E_NONE, E_SSHPROTO} ELSE {E_NONE},
        g \in IF p.ty = "Debug" THEN {E_NONE, E_BEHAVIOUR} ELSE {E_NONE} }

\* errors of the cryptography and of the protocol
FatalErrors == {E_BADDECRYPT, E_BADSIG, E_SIGMISMATCH, E_BADKEX, E_PACKETWRONG, E_SSHPROTO}

NoRunLast == [op |-> "none", err |-> E_NONE, size |-> 0]
RunStart(mode) ==
    [mode |-> mode, r |-> Runner_new([RunEngine EXCEPT !.room = 0, !.sent = <<>>]),
     pre |-> Runner_new([RunEngine EXCEPT !.room = 0, !.sent = <<>>]),
     fut |-> NoFut, fut0 |-> NoFut, last |-> NoRunLast, nops |-> 0, nwakers |-> 0,
     failed |-> FALSE, failed0 |-> FALSE, cancelled |-> FALSE,
     blocked |-> FALSE, rd_err |-> FALSE, parked |-> NoWaker]

\* the harness state after call op has returned res (err, size, r)
Ran(op, err, size, r) ==
    [rn EXCEPT !.r = r, !.pre = rn.r, !.fut0 = rn.fut,
               !.last = [op |-> op, err |-> err, size |-> size],
               !.nops = @ + 1,
               !.failed0 = rn.failed,
               !.failed = @ \/ err \in FatalErrors]

RunInit ==
    /\ BesidesRunParked
    /\ rn = RunStart("run")

RunGuard == rn.mode = "run" /\ rn.nops < MaxRunOps

RunSetOutputWaker ==
    /\ RunGuard
    /\ rn' = [Ran("set_output_waker", E_NONE, 0,
                  Runner_set_output_waker(rn.r, rn.nwakers + 1))
              EXCEPT !.nwakers = @ + 1]
    /\ UNCHANGED besides_run

RunSetInputWaker ==
    /\ RunGuard
    /\ rn' = [Ran("set_input_waker", E_NONE, 0,
                  Runner_set_input_waker(rn.r, rn.nwakers + 1))
              EXCEPT !.nwakers = @ + 1]
    /\ UNCHANGED besides_run

RunInput ==
    /\ RunGuard
    /\ \E inp \in RunInputs(rn.r.eng) :
        \E res \in {Runner_input(rn.r, inp)} :
            rn' = Ran("input", res.err, res.size, res.r)
    /\ UNCHANGED besides_run

RunOutProgress ==
    /\ RunGuard
    /\ \E b \in RunBehaviours(rn.r.traffic.payload) :
        \E res \in {Runner_out_progress(rn.r, b)} :
            rn' = Ran("out_progress", res.err, 0, res.r)
    /\ UNCHANGED besides_run

RunOutput ==
    /\ RunGuard
    /\ \E n \in 1..MaxOut :
        \E res \in {Runner_output(rn.r, n)} :
            rn' = Ran("output", res.err, res.size, res.r)
    /\ UNCHANGED besides_run

RunNext ==
    \/ RunSetOutputWaker
    \/ RunSetInputWaker
    \/ RunInput
    \/ RunOutProgress
    \/ RunOutput

SpecRunner == RunInit /\ [][RunNext]_vars

(***************************************************************************)
(* The door harness: the same Runner behind an AsyncDoor (async_door.rs).  *)
(* poll_read keeps the future of out_progress, and with it the guard of    *)
(* the engine's lock, while that future is pending; the lock is held       *)
(* exactly while a suspended future is kept.  Dropping the door that keeps *)
(* the future cancels the read; a clone of the door is used afterwards.    *)
(***************************************************************************)
MaxDoorOps == 5

LockHeld(fut) == fut.at \in {"hostkey", "sign"}

\* the part of AsyncDoor::poll_read after out_progress has returned Ok
poll_read_output(r, n) ==
    LET o == Runner_output(r, n)
    IN  [pending |-> o.size = 0, err |-> o.err, size |-> o.size, r |-> o.r, fut |-> NoFut]

\* AsyncDoor::poll_read with waker w, into a buffer that holds n packets
AsyncDoor_poll_read(r, fut, w, b, n) ==
    IF fut.at = "done"
    THEN [pending |-> FALSE, err |-> E_PANIC, size |-> 0, r |-> r, fut |-> fut]
    ELSE IF LockHeld(fut) /\ b.pending
    THEN [pending |-> TRUE, err |-> E_NONE, size |-> 0, r |-> r, fut |-> fut]
    ELSE
        LET r0 == IF LockHeld(fut) THEN r ELSE Runner_set_output_waker(r, w)
            p == out_progress_poll(r0, fut, b)
        IN  IF p.pending
            THEN [pending |-> TRUE, err |-> E_NONE, size |-> 0, r |-> p.r, fut |-> p.fut]
            ELSE IF p.err # E_NONE
            THEN [pending |-> FALSE, err |-> p.err, size |-> 0, r |-> p.r,
                  fut |-> IF LockHeld(fut) THEN [at |-> "done"] ELSE NoFut]
            ELSE poll_read_output(p.r, n)

\* a mutant of poll_write: readiness is looked at before the waker is
\* registered, and a writer that finds the engine busy registers nothing
AsyncDoor_poll_write_unregistered(r, w, inp) ==
    IF Runner_ready_input(r)
    THEN [pending |-> FALSE] @@ Runner_input(Runner_set_input_waker(r, w), inp)
    ELSE [pending |-> TRUE, err |-> E_NONE, size |-> 0, r |-> r]
\* AsyncDoor::poll_write with waker w; the caller has the lock
AsyncDoor_poll_write(r, w, inp) ==
    LET r0 == Runner_set_input_waker(r, w)
    IN  IF Runner_ready_input(r0)
        THEN [pending |-> FALSE] @@ Runner_input(r0, inp)
        ELSE [pending |-> TRUE, err |-> E_NONE, size |-> 0, r |-> r0]

DoorInit ==
    /\ BesidesRunParked
    /\ rn = RunStart("door")

\* the calls are made by one thread: a call that waits for the lock never
\* returns, because the guard is dropped only by a later poll or the drop
\* of the door that keeps the future
DoorOpen == rn.mode = "door" /\ ~rn.blocked
DoorGuard == DoorOpen /\ rn.nops < MaxDoorOps

DoorPollRead ==
    /\ DoorGuard
    /\ \E b \in RunBehaviours(rn.r.traffic.payload), n \in 1..MaxOut :
        \E res \in {AsyncDoor_poll_read(rn.r, rn.fut, rn.nwakers + 1, b, n)} :
            rn' = [Ran(IF res.pending THEN "poll_read_pending" ELSE "poll_read",
                       res.err, res.size, res.r)
                   EXCEPT !.fut = res.fut, !.nwakers = @ + 1,
                          !.rd_err = @ \/ res.err # E_NONE]
    /\ UNCHANGED besides_run

DoorPollWrite ==
    /\ DoorGuard
    /\ ~LockHeld(rn.fut)
    /\ \E inp \in RunInputs(rn.r.eng) :
        \E res \in {AsyncDoor_poll_write(rn.r, rn.nwakers + 1, inp)} :
            rn' = [Ran(IF res.pending THEN "poll_write_pending" ELSE "poll_write",
                       res.err, res.size, res.r)
                   EXCEPT !.nwakers = @ + 1,
                          !.parked = IF res.pending THEN rn.nwakers + 1 ELSE NoWaker]
    /\ UNCHANGED besides_run

\* poll_write, or poll_read on a clone that keeps no future, while the
\* suspended future keeps the guard: self.lock() and lock_arc wait
DoorPollBlocked ==
    /\ DoorGuard
    /\ LockHeld(rn.fut)
    /\ \E op \in {"poll_write_blocked", "poll_read_blocked"} :
        rn' = [Ran(op, E_NONE, 0, rn.r) EXCEPT !.blocked = TRUE]
    /\ UNCHANGED besides_run

\* the door that keeps the suspended future is dropped
DoorDrop ==
    /\ DoorGuard
    /\ LockHeld(rn.fut)
    /\ rn' = [Ran("drop", E_NONE, 0, rn.r) EXCEPT !.fut = NoFut, !.cancelled = TRUE]
    /\ UNCHANGED besides_run

DoorNext ==
    \/ DoorPollRead
    \/ DoorPollWrite
    \/ DoorPollBlocked
    \/ DoorDrop

SpecDoor == DoorInit /\ [][DoorNext]_vars

\* the reader's task is polled again and again with its own waker, until
\* its stream returns an error; pendings says whether the behaviour's
\* future may still be pending
ReaderWaker == MaxDoorOps + 1
DoorRead(pendings) ==
    /\ DoorOpen
    /\ ~rn.rd_err
    /\ \E b \in RunBehaviours(rn.r.traffic.payload), n \in 1..MaxOut :
        /\ b.pending \in pendings
        /\ \E res \in {AsyncDoor_poll_read(rn.r, rn.fut, ReaderWaker, b, n)} :
            rn' = [Ran(IF res.pending THEN "poll_read_pending" ELSE "poll_read",
                       res.err, res.size, res.r)
                   EXCEPT !.fut = res.fut, !.nops = rn.nops,
                          !.rd_err = res.err # E_NONE]
    /\ UNCHANGED besides_run

DoorReadOn == DoorRead(BOOLEAN)
DoorReadCompletes == DoorRead({FALSE})

DoorLiveNext ==
    \/ DoorReadOn
    \/ DoorPollWrite
    \/ DoorPollBlocked
    \/ DoorDrop

\* the reader keeps being polled, and the future of the behaviour it waits
\* for becomes ready
SpecDoorLive == DoorInit /\ [][DoorLiveNext]_vars /\ WF_vars(DoorReadCompletes)

WasWoken(w) == \E i \in 1..Len(rn.r.woken) : rn.r.woken[i] = w
LastWasRead == rn.mode = "door" /\ rn.last.op \in {"poll_read", "poll_read_pending"}

\* C38: a poll_write that returns Pending has registered its waker with the
\* engine not ready; that waker stays registered until it is woken; a
\* poll_read that returns without error and leaves the engine ready for
\* input has woken it; and while the reader is polled the writer that
\* waits is woken.
C38_WriterWoken ==
    /\ [](rn.mode = "door" /\ rn.last.op = "poll_write_pending" =>
            /\ rn.r.input_waker = rn.parked /\ rn.parked # NoWaker
            /\ ~Runner_ready_input(rn.r))
    /\ [](rn.mode = "door" /\ rn.parked # NoWaker =>
            rn.r.input_waker = rn.parked \/ WasWoken(rn.parked))
    /\ []((/\ LastWasRead /\ rn.last.err = E_NONE /\ ~LockHeld(rn.fut)
           /\ Runner_ready_input(rn.r) /\ rn.parked # NoWaker)
              => WasWoken(rn.parked))
    /\ (rn.mode = "door" /\ rn.parked # NoWaker)
          ~> (rn.parked = NoWaker \/ WasWoken(rn.parked) \/ rn.rd_err \/ rn.blocked)
\* a writer that found the payload waiting is woken by the poll_read that
\* handles the payload and writes all the output
C38_Witness ==
    /\ LastWasRead /\ rn.last.err = E_NONE
    /\ rn.parked # NoWaker /\ rn.pre.input_waker = rn.parked
    /\ rn.pre.traffic.payload.ty # "none"
    /\ Runner_ready_input(rn.r) /\ rn.r.input_waker = NoWaker
    /\ rn.r.woken = Append(rn.pre.woken, rn.parked)
\* the same after the future was suspended at the signature
C38_ResumedWitness ==
    /\ LastWasRead /\ rn.last.err = E_NONE /\ LockHeld(rn.fut0)
    /\ rn.parked # NoWaker /\ WasWoken(rn.parked)

Wakes(r, w) == Cardinality({i \in 1..Len(r.woken) : r.woken[i] = w})

\* C24: when Runner::input returns with a payload waiting and an output
\* waker registered, that waker is woken once and cleared; when it returns
\* with no payload waiting the output waker is neither woken nor cleared;
\* no registration is woken twice.
C24_InputWakesOutput ==
    /\ rn.mode = "run" /\ rn.last.op = "input" /\ rn.last.err = E_NONE =>
        IF rn.r.traffic.payload.ty # "none" /\ rn.pre.output_waker # NoWaker
        THEN /\ rn.r.output_waker = NoWaker
             /\ rn.r.woken = Append(rn.pre.woken, rn.pre.output_waker)
        ELSE /\ rn.r.output_waker = rn.pre.output_waker
             /\ rn.r.woken = rn.pre.woken
    /\ rn.mode = "run" => \A w \in 1..rn.nwakers : Wakes(rn.r, w) <= 1

C24_Witness ==
    /\ rn.mode = "run" /\ rn.last.op = "input" /\ rn.last.err = E_NONE
    /\ rn.r.traffic.payload.ty # "none" /\ rn.pre.output_waker # NoWaker
    /\ rn.r.output_waker = NoWaker /\ Wakes(rn.r, rn.pre.output_waker) = 1

\* C25: when Runner::output returns with the engine ready for input and an
\* input waker registered, that waker is woken once and cleared; when the
\* engine is not ready the input waker is kept and not woken.
C25_OutputWakesInput ==
    rn.mode = "run" /\ rn.last.op = "output" =>
        IF Runner_ready_input(rn.r) /\ rn.pre.input_waker # NoWaker
        THEN /\ rn.r.input_waker = NoWaker
             /\ rn.r.woken = Append(rn.pre.woken, rn.pre.input_waker)
             /\ Wakes(rn.r, rn.pre.input_waker) = 1
        ELSE /\ rn.r.input_waker = rn.pre.input_waker
             /\ rn.r.woken = rn.pre.woken

C25_Witness ==
    /\ rn.mode = "run" /\ rn.last.op = "output" /\ rn.last.size > 0
    /\ ~Runner_ready_input(rn.pre) /\ Runner_ready_input(rn.r)
    /\ rn.pre.input_waker # NoWaker /\ rn.r.input_waker = NoWaker
    /\ Wakes(rn.r, rn.pre.input_waker) = 1

\* C27: once Runner::input or out_progress has returned an error of the
\* cryptography or the protocol, every later Runner::input returns an error
\* and takes nothing, and no payload is dispatched again.
C27_AsClaimed ==
    rn.mode = "run" /\ rn.failed0 =>
        /\ rn.last.op = "input" => rn.last.err # E_NONE /\ rn.last.size = 0
        /\ rn.r.ndispatch = rn.pre.ndispatch

\* C39: the lock of the engine is not held while the future of out_progress
\* is suspended: after a poll_read that returned Pending no guard is kept,
\* and no poll_write or poll_read on a clone waits for the lock.
C39_AsClaimed ==
    rn.mode = "door" =>
        /\ rn.last.op = "poll_read_pending" => ~LockHeld(rn.fut)
        /\ ~rn.blocked

(***************************************************************************)
(* The derivation harness: the keys a client and a server derive from one  *)
(* exchange (K, H, session id) and one choice of cipher per direction.     *)
(***************************************************************************)
DerivSecrets == {<<1, 1>>, <<1, 2>>}
DerivHashes == {<<"H1">>, <<"H2">>}
DerivCiphers == {CIPHER_CHAPOLY, CIPHER_AES256CTR}

\* the Algos of role r for ciphers c2s and s2c, as algo_negotiation fills
\* them: the integrity of an AEAD cipher is its own, otherwise the MAC
DerivAlgos(r, c2s, s2c) ==
    LET tx == IF r = "cli" THEN c2s ELSE s2c
        rx == IF r = "cli" THEN s2c ELSE c2s
        integ(c) == IF c = CIPHER_CHAPOLY THEN INTEG_CHAPOLY ELSE INTEG_HMACSHA256
    IN  [NoAlgos EXCEPT !.is_client = (r = "cli"),
                        !.cipher_enc = tx, !.cipher_dec = rx,
                        !.integ_enc = integ(tx), !.integ_dec = integ(rx)]

DerivInit ==
    /\ BesidesDerParked
    /\ \E k \in DerivSecrets, h \in DerivHashes, sid \in DerivHashes,
          c2s \in DerivCiphers, s2c \in DerivCiphers :
        dv = [ParkedDv EXCEPT !.phase = "on", !.k = k, !.h = h, !.sess_id = sid,
                              !.c2s = c2s, !.s2c = s2c]

\* Keys::new_from as role r
Derive(r) ==
    /\ dv.phase = "on" /\ ~dv[r].done
    /\ LET d == Keys_new_from(dv.k, dv.h, dv.sess_id, DerivAlgos(r, dv.c2s, dv.s2c))
       IN  dv' = [dv EXCEPT ![r] = [done |-> TRUE, err |-> d.err, keys |-> d.keys]]
    /\ UNCHANGED besides_der

DerivNext == \E r \in Roles : Derive(r)

SpecDeriv == DerivInit /\ [][DerivNext]_vars

(***************************************************************************)
(* Properties of the key exchange                                          *)
(***************************************************************************)
\* C1: the session id is set by a handle_newkeys call, never changes once
\* set, and after any number of successful handle_newkeys calls (rekeys
\* included) it is the exchange hash H of the first of them.
C1_SessionIdIsFirstH ==
    [][ \A r \in Roles :
          /\ kx.eng[r].sess_id # NoSessId => kx'.eng[r].sess_id = kx.eng[r].sess_id
          /\ (kx.eng[r].sess_id = NoSessId /\ kx'.eng[r].sess_id # NoSessId)
                => (kx'.last.op = "handle_newkeys" /\ kx'.last.r = r)
          /\ kx'.hlog[r] # <<>> => kx'.eng[r].sess_id = SomeSessId(kx'.hlog[r][1])
      ]_vars

\* two exchanges completed, with different hashes; the keys in use are
\* those of the second, derived with the session id of the first
C1_Witness ==
    \E r \in Roles :
        /\ Len(kx.hlog[r]) = 2 /\ kx.hlog[r][1] # kx.hlog[r][2]
        /\ kx.eng[r].sess_id = SomeSessId(kx.hlog[r][1])
        /\ kx.eng[r].kex.tag = "Idle"
        /\ kx.eng[r].keys.keys.enc.key.h = kx.hlog[r][2]
        /\ kx.eng[r].keys.keys.enc.key.sid = kx.hlog[r][1]

SentBy(r, p) == \E i \in 1..Len(kx.eng[r].sent) : kx.eng[r].sent[i] = p

\* the first four items hashed: V_C, V_S, I_C, I_S
HashHead(h) ==
    /\ Len(h) >= 4
    /\ h[1] = VERSION_CLI /\ h[2] = VERSION_SRV
    /\ h[3].ty = "KexInit" /\ SentBy("cli", h[3])
    /\ h[4].ty = "KexInit" /\ SentBy("srv", h[4])

\* all eight: then K_S, the client's point, the server's point, K
HashAll(h) ==
    /\ Len(h) = 8 /\ HashHead(h)
    /\ h[5] = TheHostKey
    /\ SentBy("cli", [ty |-> "KexDHInit", q_c |-> h[6]])
    /\ \E i \in 1..Len(kx.eng["srv"].sent) :
          LET p == kx.eng["srv"].sent[i]
          IN  p.ty = "KexDHReply" /\ p.k_s = h[5] /\ p.q_s = h[7]
    /\ h[8] = agree(h[6], h[7])

\* C2: in a handshake between a client and a server engine both hash the
\* same items in the same order (client version, server version, client
\* KexInit, server KexInit, host key, client point, server point, shared
\* secret), so the exchanges both have completed gave both the same H, and
\* both hold the same session id.
C2_SameHash ==
    kx.mode = "pair" =>
        /\ \A r \in Roles :
            /\ kx.eng[r].kex.tag = "KexDH" => HashHead(kx.eng[r].kex.kex_hash)
            /\ kx.eng[r].kex.tag = "NewKeys" => HashAll(kx.eng[r].kex.output.h)
            /\ \A i \in 1..Len(kx.hlog[r]) : HashAll(kx.hlog[r][i])
        /\ \A i \in 1..Len(kx.hlog["cli"]) :
              i <= Len(kx.hlog["srv"]) => kx.hlog["cli"][i] = kx.hlog["srv"][i]
        /\ (kx.eng["cli"].sess_id # NoSessId /\ kx.eng["srv"].sess_id # NoSessId)
              => kx.eng["cli"].sess_id = kx.eng["srv"].sess_id

\* both sides completed a first exchange and a rekey
C2_Witness ==
    /\ kx.mode = "pair"
    /\ Len(kx.hlog["cli"]) = 2 /\ Len(kx.hlog["srv"]) = 2
    /\ kx.hlog["cli"][1] # kx.hlog["cli"][2]
    /\ kx.eng["cli"].sess_id = SomeSessId(kx.hlog["srv"][1])
    /\ kx.eng["srv"].sess_id = SomeSessId(kx.hlog["cli"][1])

\* the method that takes the peer's KexDH packet, by role
DhOp(r) == IF r = "cli" THEN "handle_kexdhreply" ELSE "handle_kexdhinit"

\* C6: in state KexDH with discard_next set, the KexDHInit (server) or
\* KexDHReply (client) received is ignored: the call returns Ok, nothing is
\* sent, the state stays KexDH and only the flag is cleared; with the flag
\* clear, a packet handled without error moves the exchange to NewKeys and
\* our NewKeys is sent.
C6_DiscardOneShot ==
    [][ \A r \in Roles :
          LET e == kx.eng[r]
              e2 == kx'.eng[r]
          IN  (/\ kx'.nops # kx.nops /\ kx'.last.r = r /\ kx'.last.op = DhOp(r)
               /\ e.kex.tag = "KexDH")
              => IF e.kex.algos.discard_next
                 THEN /\ kx'.last.err = E_NONE
                      /\ e2.sent = e.sent
                      /\ e2.kex = [e.kex EXCEPT !.algos.discard_next = FALSE]
                 ELSE kx'.last.err = E_NONE
                        => /\ e2.kex.tag = "NewKeys"
                           /\ Len(e2.sent) > Len(e.sent)
                           /\ e2.sent[Len(e2.sent)] = PktNewKeys
      ]_vars

\* one packet was ignored and the next one has brought the exchange to
\* NewKeys
C6_Witness ==
    \E r \in Roles :
        /\ kx.mode = r /\ kx.ndisc[r] = 1
        /\ kx.last.op = DhOp(r) /\ kx.last.err = E_NONE
        /\ kx.eng[r].kex.tag = "NewKeys"

(***************************************************************************)
(* Properties of the key derivation                                        *)
(***************************************************************************)
\* key material m is nothing, or the bytes derived with letter l from the
\* harness's K, H and session id
FromLetter(m, l) ==
    m.len = 0 \/ (m.letter = l /\ m.k = dv.k /\ m.h = dv.h /\ m.sid = dv.sess_id)

\* C3: the client derives its encryption IV, key and integrity key from
\* letters A, C, E and its decryption ones from B, D, F; the server the
\* other way round; so for equal K, H and session id each side's
\* encryption keys are the other side's decryption keys.
C3_LettersPerRole ==
    /\ (dv.cli.done /\ dv.cli.err = E_NONE) =>
          LET k == dv.cli.keys
          IN  /\ FromLetter(k.enc.iv, "A") /\ FromLetter(k.dec.iv, "B")
              /\ FromLetter(k.enc.key, "C") /\ FromLetter(k.dec.key, "D")
              /\ FromLetter(k.integ_enc.key, "E") /\ FromLetter(k.integ_dec.key, "F")
              /\ k.enc.key.len > 0 /\ k.dec.key.len > 0
    /\ (dv.srv.done /\ dv.srv.err = E_NONE) =>
          LET k == dv.srv.keys
          IN  /\ FromLetter(k.dec.iv, "A") /\ FromLetter(k.enc.iv, "B")
              /\ FromLetter(k.dec.key, "C") /\ FromLetter(k.enc.key, "D")
              /\ FromLetter(k.integ_dec.key, "E") /\ FromLetter(k.integ_enc.key, "F")
              /\ k.enc.key.len > 0 /\ k.dec.key.len > 0
    /\ (dv.cli.done /\ dv.cli.err = E_NONE /\ dv.srv.done /\ dv.srv.err = E_NONE) =>
          /\ dv.cli.keys.enc = dv.srv.keys.dec
          /\ dv.cli.keys.integ_enc = dv.srv.keys.integ_dec
          /\ dv.cli.keys.dec = dv.srv.keys.enc
          /\ dv.cli.keys.integ_dec = dv.srv.keys.integ_enc

\* both roles derived aes256-ctr and hmac keys, all six letters in use
C3_Witness ==
    /\ dv.cli.done /\ dv.cli.err = E_NONE /\ dv.srv.done /\ dv.srv.err = E_NONE
    /\ dv.c2s = CIPHER_AES256CTR /\ dv.s2c = CIPHER_AES256CTR
    /\ dv.h # dv.sess_id
    /\ dv.cli.keys.enc.iv.letter = "A" /\ dv.srv.keys.enc.iv.letter = "B"
    /\ dv.cli.keys.integ_enc.key.letter = "E" /\ dv.srv.keys.integ_enc.key.letter = "F"

(***************************************************************************)
(* The negotiation harness: Init draws a role and a peer KexInit, the one  *)
(* action applies algo_negotiation to them.                                *)
(***************************************************************************)
NegInit ==
    /\ \E c \in BOOLEAN, p \in PeerKexInits :
        neg = [is_client |-> c, p |-> p, done |-> FALSE, out |-> NegErr(E_NONE)]
    /\ BesidesNegParked

Negotiate ==
    /\ ~neg.done
    /\ \E rnd \in Randoms :
        neg' = [neg EXCEPT !.done = TRUE,
                  !.out = AlgoNegotiation(neg.is_client, neg.p,
                                          AlgoConfig(neg.is_client), rnd)]
    /\ UNCHANGED besides_neg

NegNext == Negotiate

SpecNeg == NegInit /\ [][NegNext]_vars

(***************************************************************************)
(* Properties of the negotiation.  The helpers below restate the selection *)
(* rule from its description: they do not use first_match.                 *)
(***************************************************************************)
RECURSIVE FirstCommon(_, _)
\* the first entry of cl that also occurs in sv, "" when there is none
FirstCommon(cl, sv) ==
    IF cl = <<>> THEN ""
    ELSE IF \E j \in DOMAIN sv : sv[j] = Head(cl) THEN Head(cl)
    ELSE FirstCommon(Tail(cl), sv)

\* first common entry of the peer's list `remote` and our list `ours`,
\* the client's list giving the order
Agreed(remote, ours) ==
    IF neg.is_client THEN FirstCommon(ours, remote) ELSE FirstCommon(remote, ours)

NegConf == AlgoConfig(neg.is_client)
\* the peer's lists for the direction we send in and the one we receive in
TxCipherList == IF neg.is_client THEN neg.p.cipher_c2s ELSE neg.p.cipher_s2c
RxCipherList == IF neg.is_client THEN neg.p.cipher_s2c ELSE neg.p.cipher_c2s
TxMacList == IF neg.is_client THEN neg.p.mac_c2s ELSE neg.p.mac_s2c
RxMacList == IF neg.is_client THEN neg.p.mac_s2c ELSE neg.p.mac_c2s
TxCompList == IF neg.is_client THEN neg.p.comp_c2s ELSE neg.p.comp_s2c
RxCompList == IF neg.is_client THEN neg.p.comp_s2c ELSE neg.p.comp_c2s

IsNoMatch(e) ==
    e \in {E_NOMATCH_KEX, E_NOMATCH_HOSTKEY, E_NOMATCH_ENC, E_NOMATCH_MAC,
           E_NOMATCH_COMP}

CipherOfName(n) ==
    IF n = SSH_NAME_CHAPOLY THEN CIPHER_CHAPOLY
    ELSE IF n = SSH_NAME_AES256_CTR THEN CIPHER_AES256CTR ELSE "?"

\* the integrity algorithm of a direction when the mac list decides it
IntegOfMac(n) == IF n = SSH_NAME_HMAC_SHA256 THEN INTEG_HMACSHA256 ELSE "?"

\* the integrity algorithm of a direction: the cipher's own for an AEAD cipher
IntegOfDirection(cipherName, macName) ==
    IF cipherName = SSH_NAME_CHAPOLY THEN INTEG_CHAPOLY ELSE IntegOfMac(macName)

\* the lists other than the mac lists
NonMacListsAgree ==
    /\ Agreed(neg.p.kex, NegConf.kexs) # ""
    /\ Agreed(neg.p.hostsig, NegConf.hostsig) # ""
    /\ Agreed(TxCipherList, NegConf.ciphers) # ""
    /\ Agreed(RxCipherList, NegConf.ciphers) # ""
    /\ Agreed(TxCompList, NegConf.comps) # ""
    /\ Agreed(RxCompList, NegConf.comps) # ""

MacListsAgree ==
    /\ Agreed(TxMacList, NegConf.macs) # ""
    /\ Agreed(RxMacList, NegConf.macs) # ""

\* a mac list is needed only for a direction whose cipher is not AEAD
NeededMacListsAgree ==
    /\ Agreed(TxCipherList, NegConf.ciphers) = SSH_NAME_AES256_CTR
          => Agreed(TxMacList, NegConf.macs) # ""
    /\ Agreed(RxCipherList, NegConf.ciphers) = SSH_NAME_AES256_CTR
          => Agreed(RxMacList, NegConf.macs) # ""

\* C4 as stated: negotiation fails with AlgoNoMatch whenever any of the
\* eight lists has no common entry, and the ciphers are the first common
\* entries of their lists.
C4_AsClaimed ==
    neg.done =>
        /\ ~(NonMacListsAgree /\ MacListsAgree) => IsNoMatch(neg.out.err)
        /\ neg.out.err = E_NONE =>
            /\ neg.out.algos.cipher_enc
                 = CipherOfName(Agreed(TxCipherList, NegConf.ciphers))
            /\ neg.out.algos.cipher_dec
                 = CipherOfName(Agreed(RxCipherList, NegConf.ciphers))

\* C4 (amended): algo_negotiation selects, for kex, host signature, cipher and
\* compression in each direction, the first entry of the client's list that
\* is also in the server's list, and fails with AlgoNoMatch when one of those
\* lists has no common entry; the mac list of a direction is consulted (first
\* common entry, AlgoNoMatch when none) only when that direction's cipher is
\* not AEAD, and for chacha20-poly1305 the integrity algorithm is the
\* cipher's own whatever the mac lists hold.
C4_Negotiation ==
    neg.done =>
        /\ ~(NonMacListsAgree /\ NeededMacListsAgree) => IsNoMatch(neg.out.err)
        /\ neg.out.err = E_NONE =>
            /\ NonMacListsAgree /\ NeededMacListsAgree
            /\ Agreed(neg.p.kex, NegConf.kexs)
                 \in {SSH_NAME_CURVE25519, SSH_NAME_CURVE25519_LIBSSH}
            /\ neg.out.algos.hostsig = Agreed(neg.p.hostsig, NegConf.hostsig)
            /\ neg.out.algos.cipher_enc
                 = CipherOfName(Agreed(TxCipherList, NegConf.ciphers))
            /\ neg.out.algos.cipher_dec
                 = CipherOfName(Agreed(RxCipherList, NegConf.ciphers))
            /\ neg.out.algos.integ_enc
                 = IntegOfDirection(Agreed(TxCipherList, NegConf.ciphers),
                                    Agreed(TxMacList, NegConf.macs))
            /\ neg.out.algos.integ_dec
                 = IntegOfDirection(Agreed(RxCipherList, NegConf.ciphers),
                                    Agreed(RxMacList, NegConf.macs))

\* a server negotiated chacha20-poly1305 one way and aes256-ctr the other,
\* with no common mac for the AEAD direction
C4_Witness ==
    /\ neg.done /\ ~neg.is_client /\ neg.out.err = E_NONE
    /\ neg.out.algos.cipher_enc = CIPHER_CHAPOLY
    /\ neg.out.algos.cipher_dec = CIPHER_AES256CTR
    /\ Agreed(TxMacList, NegConf.macs) = ""

\* C5: negotiation never yields a marker name as the key-exchange algorithm:
\* when the first common kex name is a marker the negotiation fails with
\* AlgoNoMatch for kex, and a successful negotiation agreed on a real one.
C5_NoMarkerWins ==
    neg.done =>
        /\ Agreed(neg.p.kex, NegConf.kexs) \in marker_only_kexs
              => neg.out.err = E_NOMATCH_KEX
        /\ neg.out.err = E_NONE
              => /\ Agreed(neg.p.kex, NegConf.kexs) \notin marker_only_kexs
                 /\ neg.out.algos.kex.pubkey # 0

\* the first common name is a marker although a real algorithm is common too
C5_Witness ==
    /\ neg.done
    /\ Agreed(neg.p.kex, NegConf.kexs) \in marker_only_kexs
    /\ has_algo(neg.p.kex, SSH_NAME_CURVE25519)
    /\ neg.out.err = E_NOMATCH_KEX

PeerHasKexguess2 == \E i \in DOMAIN neg.p.kex : neg.p.kex[i] = SSH_NAME_KEXGUESS2

\* the peer guessed right, without kexguess2: both lists start alike
SameFirst(remote, ours) ==
    IF remote = <<>> \/ ours = <<>> THEN remote = ours ELSE Head(remote) = Head(ours)

\* C7 as stated: under kexguess2 the guess is the first entry of OUR list
C7_AsClaimed ==
    (neg.done /\ neg.out.err = E_NONE) =>
        LET guessOk ==
              IF PeerHasKexguess2
              THEN /\ Head(NegConf.kexs) = Agreed(neg.p.kex, NegConf.kexs)
                   /\ Head(NegConf.hostsig) = Agreed(neg.p.hostsig, NegConf.hostsig)
              ELSE /\ SameFirst(neg.p.kex, NegConf.kexs)
                   /\ SameFirst(neg.p.hostsig, NegConf.hostsig)
        IN  neg.out.algos.discard_next = (neg.p.first_follows /\ ~guessOk)

\* C7 (amended): algo_negotiation marks the next KexDH packet for discard
\* exactly when the peer's KexInit has first-follows set and the peer's guess,
\* for kex or for host key, is wrong; without kexguess2 the guess is right
\* when both lists start with the same name, and with the kexguess2 marker in
\* the peer's kex list it is right when the first entry of the PEER's list is
\* the negotiated algorithm.
C7_Discard ==
    (neg.done /\ neg.out.err = E_NONE) =>
        LET guessOk ==
              IF PeerHasKexguess2
              THEN /\ Head(neg.p.kex) = Agreed(neg.p.kex, NegConf.kexs)
                   /\ Head(neg.p.hostsig) = Agreed(neg.p.hostsig, NegConf.hostsig)
              ELSE /\ SameFirst(neg.p.kex, NegConf.kexs)
                   /\ SameFirst(neg.p.hostsig, NegConf.hostsig)
        IN  neg.out.algos.discard_next = (neg.p.first_follows /\ ~guessOk)

\* first-follows with kexguess2: the peer's first entry was negotiated though
\* it is not the first of our list, and nothing is discarded
C7_Witness ==
    /\ neg.done /\ neg.out.err = E_NONE /\ neg.p.first_follows
    /\ PeerHasKexguess2
    /\ Head(neg.p.kex) = SSH_NAME_CURVE25519_LIBSSH
    /\ ~neg.out.algos.discard_next

=============================================================================
